---- MODULE Spec2Model ----
(***************************************************************************)
(* Survey submission pipeline of the therapy-tools survey backend.         *)
(*                                                                         *)
(* The repository holds two implementations of the surveySubmission        *)
(* handler, registered on the same route:                                  *)
(*   "A"  src/src/functions/survey-submission.js (self-contained)          *)
(*   "B"  src/unnamed/part_002 (handlers) on top of the services           *)
(*        src/unnamed/part_001 (table storage) and src/unnamed/part_000    *)
(*        (Kit.com API).                                                   *)
(* impl says which of the two is deployed.  Every await of the code is one *)
(* action; the code between two awaits is atomic (one JavaScript thread).  *)
(*                                                                         *)
(* Strings are TLA+ strings.  Row keys of the surveyresponses table are    *)
(* strings built from a text part, the millisecond clock and a random      *)
(* suffix; they are modelled as triples <<text, clock, suffix>>.           *)
(***************************************************************************)
EXTENDS Integers, Sequences, FiniteSets, TLC

VARIABLES
    impl,               \* which handler implementation is deployed
    kitApiKey,          \* process.env.KIT_API_KEY is set
    now,                \* Date.now()
    createResultHasRowKey, \* the result object of createEntity has a rowKey
    clientsInitialized, \* A: surveyResponsesTable / userTagsTable are set
    surveyResponses,    \* table surveyresponses: <<pk, rk>> -> entity
    userTags,           \* A: table usertags: <<pk, rk>> -> entity
    subscribers,        \* B: table subscribers: rowKey -> entity
    kitRequests,        \* requests sent to api.kit.com, in order
    req,                \* the submissions: request number -> handler state
    calls,              \* direct calls of the exported operations, in order
    limiterRequests,    \* rateLimiter.requests: identifier -> timestamps
    limiterCalls,       \* the isAllowed calls made so far, with their results
    limiterQueries,     \* the number of getRemainingRequests calls made so far
    healthChecks        \* the requests the health endpoint answered, in order

env == <<impl, kitApiKey, createResultHasRowKey>>

\* the singleton rate limiter and the record of its calls
limiter == <<limiterRequests, limiterCalls, limiterQueries>>

vars == <<env, limiter, healthChecks, now, clientsInitialized, surveyResponses, userTags, subscribers,
          kitRequests, req, calls>>

\* ---------------------------------------------------------------- bounds
MaxRequests == 2
MaxClock == 1
MaxCalls == 2
MaxLimiterCalls == 7
MaxLimiterClock == 120000
MaxLimiterQueries == 1
MaxInputLen == 3
MaxHealthChecks == 3

Requests == 1..MaxRequests

\* ------------------------------------------------------------ tag catalog
SettingTags == {"setting_inperson", "setting_mostly_inperson", "setting_mixed",
                "setting_mostly_online", "setting_online_only"}

ProfessionTags == {"role_therapist", "role_social_worker", "role_psychologist",
                   "role_school_counselor", "role_student", "role_clergy",
                   "role_sud_counselor", "role_peer_specialist", "role_other"}

PopulationTags == {"pop_children10u", "pop_teens", "pop_adults",
                   "pop_couples", "pop_families", "pop_groups", "pop_all_day"}

InterestTags == {"interest_sandtray", "interest_art", "interest_feelings_wheel",
                 "interest_humans", "interest_tumbling", "interest_jeopardy",
                 "interest_bingo", "interest_mandala"}

FrequencyTags == {"freq_daily", "freq_weekly", "freq_monthly", "freq_occasionally"}

ModalityTags == {"mod_cbt", "mod_dbt", "mod_solutions", "mod_expressive",
                 "mod_emdr", "mod_couples", "mod_ifs", "mod_eclectic", "mod_other"}

validTags == SettingTags \cup ProfessionTags \cup PopulationTags
             \cup InterestTags \cup FrequencyTags \cup ModalityTags

\* tag.includes('_other'): the catalog tags that contain the text "_other"
ContainsOther(tag) == tag \in {"role_other", "mod_other"}

\* --------------------------------------------------------------- helpers
NoTime == -1            \* an unset / null timestamp
NoKey == <<"", -1, -1>> \* no row key

Range(s) == {s[k] : k \in 1..Len(s)}

RECURSIVE FilterSeq(_, _)
\* Array.prototype.filter with the predicate "member of keep"
FilterSeq(s, keep) ==
    IF s = <<>> THEN <<>>
    ELSE IF Head(s) \in keep THEN <<Head(s)>> \o FilterSeq(Tail(s), keep)
         ELSE FilterSeq(Tail(s), keep)

\* String.prototype.toLowerCase on the e-mail addresses of the model
toLowerCase(s) == IF s = "Ann@x.io" THEN "ann@x.io" ELSE s

\* JSON.stringify: an injective encoding of the value
JSONstringify(v) == <<"json", v>>

\* updateEntity(entity, 'Merge'): properties of the update win, others stay
MergeEntity(old, upd) ==
    [k \in DOMAIN old \cup DOMAIN upd |->
        IF k \in DOMAIN upd THEN upd[k] ELSE old[k]]

\* -------------------------------------------------------------- payloads
Str(s) == [present |-> TRUE, isArray |-> FALSE, items |-> <<s>>]
Arr(s) == [present |-> TRUE, isArray |-> TRUE, items |-> s]
Missing == [present |-> FALSE, isArray |-> FALSE, items |-> <<>>]

ValidSurvey ==
    [setting |-> Str("setting_mixed"), profession |-> Str("role_other"),
     populations |-> Arr(<<"pop_adults", "pop_couples">>),
     interests |-> Arr(<<"interest_art">>), frequency |-> Str("freq_weekly"),
     modalities |-> Arr(<<"mod_cbt">>)]

SurveySamples ==
    {ValidSurvey,
     [ValidSurvey EXCEPT !.setting = Missing],
     [ValidSurvey EXCEPT !.populations = Arr(<<>>)],
     [ValidSurvey EXCEPT !.frequency = Str("freq_never"),
                         !.modalities = Arr(<<"mod_cbt", "mod_magic">>)]}

EmailInputs == {"ann@x.io", "Ann@x.io", "not-an-email"}

TagLists ==
    {<<"pop_adults", "role_other">>, <<"role_other">>, <<"pop_adults", "pop_adults">>,
     <<"pop_adults", "bogus_tag">>, <<>>}

BasePayload ==
    [name |-> "Ann", email |-> "ann@x.io", surveyData |-> ValidSurvey,
     recommendations |-> <<"rec_canvas">>,
     selectedTags |-> <<"pop_adults", "role_other">>,
     customResponses |-> "role_other:coach",
     timestamp |-> 0, completed |-> "true"]

\* the submissions the clients send
Payloads ==
    {[BasePayload EXCEPT !.email = e] : e \in EmailInputs}
    \cup {[BasePayload EXCEPT !.selectedTags = t] : t \in TagLists}
    \cup {[BasePayload EXCEPT !.surveyData = s] : s \in SurveySamples}
    \cup {[BasePayload EXCEPT !.name = ""],
          [BasePayload EXCEPT !.name = "", !.selectedTags = <<"pop_adults", "bogus_tag">>],
          [BasePayload EXCEPT !.name = " <Ann's> "]}

\* the characters of the identity and free-text strings of the payloads
Chars(s) ==
    CASE s = "" -> <<>>
      [] s = "Ann" -> <<"A", "n", "n">>
      [] s = " <Ann's> " -> <<" ", "<", "A", "n", "n", "'", "s", ">", " ">>
      [] s = "ann@x.io" -> <<"a", "n", "n", "@", "x", ".", "i", "o">>
      [] s = "Ann@x.io" -> <<"A", "n", "n", "@", "x", ".", "i", "o">>
      [] s = "not-an-email" ->
            <<"n", "o", "t", "-", "a", "n", "-", "e", "m", "a", "i", "l">>
      [] s = "role_other:coach" ->
            <<"r", "o", "l", "e", "_", "o", "t", "h", "e", "r", ":",
              "c", "o", "a", "c", "h">>

\* .substring(0, 1000) of sanitizeInput
SanitizeMaxLength == 1000

RECURSIVE trimStart(_)
\* String.prototype.trim, leading part
trimStart(cs) ==
    IF cs # <<>> /\ Head(cs) = " " THEN trimStart(Tail(cs)) ELSE cs

RECURSIVE trimEnd(_)
\* String.prototype.trim, trailing part
trimEnd(cs) ==
    IF cs # <<>> /\ cs[Len(cs)] = " " THEN trimEnd(SubSeq(cs, 1, Len(cs) - 1)) ELSE cs

\* sanitizeInput of the validation utilities, on the characters of a string:
\* trim, drop < and >, drop both quote characters, cut at the maximum length
sanitizeInput(cs) ==
    LET trimmed == trimEnd(trimStart(cs))
        noAngle == SelectSeq(trimmed, LAMBDA c : c \notin {"<", ">"})
        noQuote == SelectSeq(noAngle, LAMBDA c : c \notin {"'", "\""})
    IN SubSeq(noQuote, 1, IF Len(noQuote) < SanitizeMaxLength
                          THEN Len(noQuote) ELSE SanitizeMaxLength)

\* the values handed to sanitizeInput: strings of up to MaxInputLen characters
\* (a letter, whitespace, an angle bracket, a quote), and a number
SanitizeInputs ==
    {[isString |-> TRUE, chars |-> cs, number |-> 0] :
        cs \in UNION {[1..n -> {"a", " ", "<", "'"}] : n \in 0..MaxInputLen}}
    \cup {[isString |-> FALSE, chars |-> <<>>, number |-> 7]}

\* sanitizeInput(input): a value that is not a string is returned as it is
sanitizeValue(input) ==
    IF ~input.isString THEN input
    ELSE [input EXCEPT !.chars = sanitizeInput(@)]

\* Joi.string().email()
IsEmail(e) == e \in {"ann@x.io", "Ann@x.io"}

\* Joi.string().valid(...).required()
SingleOk(a, allowed) ==
    a.present /\ ~a.isArray /\ a.items[1] \in allowed

\* Joi.array().items(Joi.string().valid(...)).min(minLen).required()
MultiOk(a, allowed, minLen) ==
    a.present /\ a.isArray /\ Len(a.items) >= minLen
    /\ Range(a.items) \subseteq allowed

\* the fields of the payload that violate the Joi schema; minLen is the
\* .min() of the array fields (1 in surveySubmissionSchema, none in surveySchema)
SchemaViolations(p, minLen) ==
    {f \in {"name"} : p.name = ""}
    \cup {f \in {"email"} : ~IsEmail(p.email)}
    \cup {f \in {"surveyData.setting"} : ~SingleOk(p.surveyData.setting, SettingTags)}
    \cup {f \in {"surveyData.profession"} :
            ~SingleOk(p.surveyData.profession, ProfessionTags)}
    \cup {f \in {"surveyData.populations"} :
            ~MultiOk(p.surveyData.populations, PopulationTags, minLen)}
    \cup {f \in {"surveyData.interests"} :
            ~MultiOk(p.surveyData.interests, InterestTags, minLen)}
    \cup {f \in {"surveyData.frequency"} :
            ~SingleOk(p.surveyData.frequency, FrequencyTags)}
    \cup {f \in {"surveyData.modalities"} :
            ~MultiOk(p.surveyData.modalities, ModalityTags, minLen)}
    \cup {f \in {"selectedTags"} : Len(p.selectedTags) < minLen}

surveySubmissionSchema(p) == SchemaViolations(p, 1)

\* surveySchema of part_002: the array fields have no .min()
surveySchema(p) == SchemaViolations(p, 0)

\* the order in which Joi visits the keys of the schema
SchemaOrder ==
    <<"name", "email", "surveyData.setting", "surveyData.profession",
      "surveyData.populations", "surveyData.interests", "surveyData.frequency",
      "surveyData.modalities", "selectedTags">>

\* error.details[0].path of a validation without abortEarly: false
FirstViolation(violations) ==
    LET k == CHOOSE k \in 1..Len(SchemaOrder) :
                 /\ SchemaOrder[k] \in violations
                 /\ \A j \in 1..(k - 1) : SchemaOrder[j] \notin violations
    IN SchemaOrder[k]

\* ---------------------------------------------------------- request state
NoData == [tagsProcessed |-> -1, recommendationsCount |-> -1, totalTags |-> -1,
           savedTags |-> -1, failedTags |-> -1, kitSyncStatus |-> ""]

NoResp == [status |-> 0, success |-> FALSE, error |-> "", fields |-> {},
           invalidTags |-> <<>>, data |-> NoData]

NoEntity == [partitionKey |-> "", rowKey |-> NoKey]

NoTagResult == [totalTags |-> -1, successCount |-> -1, failedCount |-> -1,
                failedTags |-> <<>>]

IdleRequest ==
    [pc |-> "idle", payload |-> BasePayload, resp |-> NoResp,
     entity |-> NoEntity,       \* the entity handed to createEntity
     appended |-> FALSE,        \* createEntity succeeded
     appendFaulted |-> FALSE,   \* createEntity threw
     surveyRowKey |-> NoKey,    \* A: the row key kept for the status patch
     subscriber |-> NoEntity,   \* B: the subscriber found for the e-mail
     tagTasks |-> <<>>,         \* per selectedTags index: state of its upsert
     tagCreatedAt |-> NoTime,   \* createdAt of the tag entities of this call
     tagResult |-> NoTagResult, \* A: what saveUserTags returned
     kitStatus |-> "",          \* status of the sync result
     kitFetches |-> 0,          \* requests this submission sent to Kit.com
     patch |-> NoEntity,        \* the entity handed to the status update
     patchFaulted |-> FALSE,    \* the status update met a storage fault
     patchLanded |-> FALSE]     \* the status update changed a stored record

\* createErrorResponse(status, message, details)
createErrorResponse(status, message, fields, invalidTags) ==
    [status |-> status, success |-> FALSE, error |-> message, fields |-> fields,
     invalidTags |-> invalidTags, data |-> NoData]

\* createSuccessResponse(data)
createSuccessResponse(data) ==
    [status |-> 200, success |-> TRUE, error |-> "", fields |-> {},
     invalidTags |-> <<>>, data |-> data]

Respond(r, resp) == [r EXCEPT !.pc = "done", !.resp = resp]

\* generateId(): Date.now() followed by a random suffix.  Math.random() is
\* taken never to repeat: the suffix of call c of request i is 10 * i + c
generateId(i, c) == <<"", now, 10 * i + c>>

\* ================================================== implementation A =====
\* a survey response entity written without its initial sync-status
saveSurveyResponseUnset(p, rowKey) ==
    [partitionKey |-> toLowerCase(p.email),
     rowKey |-> rowKey,
     therapistId |-> "",
     email |-> toLowerCase(p.email),
     name |-> p.name,
     surveyData |-> JSONstringify(p.surveyData),
     recommendations |-> JSONstringify(p.recommendations),
     selectedTags |-> JSONstringify(p.selectedTags),
     customResponses |-> JSONstringify(p.customResponses),
     completedAt |-> IF p.timestamp # NoTime THEN p.timestamp ELSE now,
     completed |-> (p.completed = "true") \/ TRUE,
     kitSyncStatus |-> ""]

\* the entity saveSurveyResponse builds before it awaits createEntity
saveSurveyResponse(p, rowKey) ==
    [partitionKey |-> toLowerCase(p.email),
     rowKey |-> rowKey,
     therapistId |-> "",
     email |-> toLowerCase(p.email),
     name |-> p.name,
     surveyData |-> JSONstringify(p.surveyData),
     recommendations |-> JSONstringify(p.recommendations),
     selectedTags |-> JSONstringify(p.selectedTags),
     customResponses |-> JSONstringify(p.customResponses),
     completedAt |-> IF p.timestamp # NoTime THEN p.timestamp ELSE now,
     completed |-> (p.completed = "true") \/ TRUE,      \* completed || true
     kitSyncStatus |-> "pending"]

\* the entity saveUserTags builds for one tag
UserTagEntity(email, tagName, createdAt) ==
    [partitionKey |-> toLowerCase(email), rowKey |-> tagName, therapistId |-> "",
     email |-> toLowerCase(email), tagName |-> tagName, tagSource |-> "survey",
     createdAt |-> createdAt]

\* an insert that leaves an entity already stored under the key as it is
InsertIfAbsent(table, entity) ==
    [k \in DOMAIN table \cup {<<entity.partitionKey, entity.rowKey>>} |->
        IF k \in DOMAIN table THEN table[k] ELSE entity]

\* a write that logs the entity under a key of its own for each timestamp
AppendRecord(table, entity) ==
    [k \in DOMAIN table
            \cup {<<entity.partitionKey, entity.rowKey, entity.createdAt>>} |->
        IF k = <<entity.partitionKey, entity.rowKey, entity.createdAt>>
        THEN entity ELSE table[k]]

\* userTagsTable.upsertEntity(entity, 'Replace')
UpsertReplace(table, entity) ==
    [k \in DOMAIN table \cup {<<entity.partitionKey, entity.rowKey>>} |->
        IF k = <<entity.partitionKey, entity.rowKey>> THEN entity ELSE table[k]]

\* a result that counts every requested tag as saved
saveUserTagsAllSaved(tags, tasks) ==
    [totalTags |-> Len(tags), successCount |-> Len(tags), failedCount |-> 0,
     failedTags |-> <<>>]

\* what saveUserTags returns once every upsert has settled
saveUserTagsResult(tags, tasks) ==
    LET failedIdx == {k \in 1..Len(tags) : tasks[k] = "failed"}
        okIdx == {k \in 1..Len(tags) : tasks[k] = "success"}
    IN [totalTags |-> Len(tags),
        successCount |-> Cardinality(okIdx),
        failedCount |-> Cardinality(failedIdx),
        failedTags |-> FilterSeq([k \in 1..Len(tags) |-> <<k, tags[k]>>],
                                 {<<k, tags[k]>> : k \in failedIdx})]

\* validKitTags of syncTagsToKit: selectedTags.filter(tag => !tag.includes('_other'))
validKitTags(selectedTags) ==
    FilterSeq(selectedTags, {t \in Range(selectedTags) : ~ContainsOther(t)})

\* the entity updateKitSyncStatus hands to updateEntity(entity, 'Merge')
KitStatusEntity(email, rowKey, syncStatus) ==
    [partitionKey |-> toLowerCase(email), rowKey |-> rowKey,
     kitSyncStatus |-> syncStatus, kitSyncedAt |-> now]

\* the handler from the call of updateKitSyncStatus up to its await
A_CallUpdateKitSyncStatus(r, status) ==
    [r EXCEPT !.pc = "patch", !.kitStatus = status,
              !.patch = KitStatusEntity(r.payload.email, r.surveyRowKey, status)]

\* syncTagsToKit of survey-submission.js up to its fetch: it returns
\* 'skipped' without a request, or sends kitPayload
A_syncTagsToKit(email, selectedTags) ==
    IF ~kitApiKey THEN [skipped |-> TRUE, email |-> "", tags |-> <<>>]
    ELSE IF validKitTags(selectedTags) = <<>>
    THEN [skipped |-> TRUE, email |-> "", tags |-> <<>>]
    ELSE [skipped |-> FALSE, email |-> email, tags |-> validKitTags(selectedTags)]

\* what the fetch outcomes make of the result status: "ok" (response.ok and a
\* JSON body), "badBody" (response.ok, response.json() throws), "httpError"
\* (not ok), "timeout" (fetch rejects: timeout or network error)
A_FetchStatus(outcome) == IF outcome = "ok" THEN "success" ELSE "failed"

FetchOutcomes == {"ok", "badBody", "httpError", "timeout"}

\* an entry of kitRequests: the body sent, and the tag list the caller handed over
KitRequest(email, tags, handed) == [email |-> email, tags |-> tags, handed |-> handed]

\* the handler's call of syncTagsToKit up to its first await
A_CallSyncTagsToKit(r) ==
    IF A_syncTagsToKit(r.payload.email, r.payload.selectedTags).skipped
    THEN A_CallUpdateKitSyncStatus(r, "skipped")
    ELSE [r EXCEPT !.pc = "fetch", !.kitFetches = @ + 1]

\* the handler from the catalog check of selectedTags to the await of createEntity
A_CheckTagsAndSave(i, r) ==
    LET invalidTags == FilterSeq(r.payload.selectedTags,
                                 Range(r.payload.selectedTags) \ validTags)
    IN IF invalidTags # <<>>
       THEN Respond(r, createErrorResponse(400, "Invalid tags detected", {}, invalidTags))
       ELSE [r EXCEPT !.pc = "create",
                      !.entity = saveSurveyResponse(r.payload, generateId(i, 1))]

\* POST /survey-submission arrives: parse, validate, initialize the clients
A_Receive(i, p) ==
    /\ impl = "A"
    /\ req[i].pc = "idle"
    /\ i > 1 => req[i - 1].pc # "idle"
    /\ LET r == [req[i] EXCEPT !.payload = p]
           errors == surveySubmissionSchema(p)
       IN IF errors # {}
          THEN /\ req' = [req EXCEPT ![i] =
                     Respond(r, createErrorResponse(400, "Validation failed", errors, <<>>))]
               /\ UNCHANGED clientsInitialized
          ELSE IF ~clientsInitialized
          THEN /\ clientsInitialized' = TRUE
               /\ req' = [req EXCEPT ![i] = [r EXCEPT !.pc = "ensureTables"]]
          ELSE /\ req' = [req EXCEPT ![i] = A_CheckTagsAndSave(i, r)]
               /\ UNCHANGED clientsInitialized
    /\ UNCHANGED <<env, limiter, healthChecks, now, surveyResponses, userTags, subscribers, kitRequests, calls>>

\* ensureTablesExist() settles: both tables exist (created or 409), or a
\* createTable threw another error, which the handler's outer catch turns into 500
A_EnsureTables(i, fault) ==
    /\ impl = "A"
    /\ req[i].pc = "ensureTables"
    /\ req' = [req EXCEPT ![i] =
           IF fault
           THEN Respond(@, createErrorResponse(500, "Internal server error", {}, <<>>))
           ELSE A_CheckTagsAndSave(i, @)]
    /\ UNCHANGED <<env, limiter, healthChecks, now, clientsInitialized, surveyResponses, userTags,
                   subscribers, kitRequests, calls>>

\* the handler after saveSurveyResponse returned: keep the row key
\* (surveyResponseResult.rowKey || generateId()), then start saveUserTags
A_AfterSave(i, r) ==
    [r EXCEPT !.appended = TRUE,
              !.surveyRowKey = IF createResultHasRowKey THEN r.entity.rowKey
                               ELSE generateId(i, 2),
              !.pc = "tags",
              !.tagTasks = [k \in 1..Len(r.payload.selectedTags) |-> "pending"],
              !.tagCreatedAt = now]

\* surveyResponsesTable.createEntity(entity): fails when the key exists
CreateEntity(table, entity) ==
    [k \in DOMAIN table \cup {<<entity.partitionKey, entity.rowKey>>} |->
        IF k = <<entity.partitionKey, entity.rowKey>> THEN entity ELSE table[k]]

\* a handler whose catch block around saveSurveyResponse logs and goes on
A_CreateEntityGoesOn(i, fault) ==
    /\ impl = "A"
    /\ req[i].pc = "create"
    /\ LET e == req[i].entity
       IN IF fault \/ <<e.partitionKey, e.rowKey>> \in DOMAIN surveyResponses
          THEN /\ req' = [req EXCEPT ![i] =
                     [A_AfterSave(i, @) EXCEPT !.appended = FALSE, !.appendFaulted = TRUE]]
               /\ UNCHANGED surveyResponses
          ELSE /\ surveyResponses' = CreateEntity(surveyResponses, e)
               /\ req' = [req EXCEPT ![i] = A_AfterSave(i, @)]
    /\ UNCHANGED <<env, limiter, healthChecks, now, clientsInitialized, userTags, subscribers, kitRequests, calls>>

\* createEntity of saveSurveyResponse settles
A_CreateEntity(i, fault) ==
    /\ impl = "A"
    /\ req[i].pc = "create"
    /\ LET e == req[i].entity
       IN IF fault \/ <<e.partitionKey, e.rowKey>> \in DOMAIN surveyResponses
          THEN /\ req' = [req EXCEPT ![i] =
                     Respond([@ EXCEPT !.appendFaulted = TRUE],
                         createErrorResponse(500, "Failed to save survey response",
                                             {}, <<>>))]
               /\ UNCHANGED surveyResponses
          ELSE /\ surveyResponses' = CreateEntity(surveyResponses, e)
               /\ req' = [req EXCEPT ![i] = A_AfterSave(i, @)]
    /\ UNCHANGED <<env, limiter, healthChecks, now, clientsInitialized, userTags, subscribers, kitRequests, calls>>

\* the handler after Promise.all of saveUserTags resolved
A_AfterTags(r) ==
    A_CallSyncTagsToKit(
        [r EXCEPT !.tagResult = saveUserTagsResult(r.payload.selectedTags, r.tagTasks)])

\* one upsertEntity of saveUserTags settles
A_UpsertTag(i, k, fault) ==
    /\ impl = "A"
    /\ req[i].pc = "tags"
    /\ k \in DOMAIN req[i].tagTasks
    /\ req[i].tagTasks[k] = "pending"
    /\ LET tag == req[i].payload.selectedTags[k]
           r == [req[i] EXCEPT !.tagTasks[k] = IF fault THEN "failed" ELSE "success"]
           settled == \A j \in DOMAIN r.tagTasks : r.tagTasks[j] # "pending"
           r2 == IF settled THEN A_AfterTags(r) ELSE r
       IN /\ userTags' = IF fault THEN userTags
                         ELSE UpsertReplace(userTags,
                                  UserTagEntity(r.payload.email, tag, r.tagCreatedAt))
          /\ req' = [req EXCEPT ![i] = r2]
          /\ kitRequests' =
                IF r2.pc = "fetch"
                THEN LET sent == A_syncTagsToKit(r.payload.email, r.payload.selectedTags)
                     IN Append(kitRequests,
                               KitRequest(sent.email, sent.tags, r.payload.selectedTags))
                ELSE kitRequests
    /\ UNCHANGED <<env, limiter, healthChecks, now, clientsInitialized, surveyResponses, subscribers, calls>>

\* a fetch that is sent once more when it did not succeed
A_FetchRetries(i, outcome) ==
    /\ impl = "A"
    /\ req[i].pc = "fetch"
    /\ IF outcome # "ok" /\ req[i].kitFetches < 2
       THEN /\ req' = [req EXCEPT ![i].kitFetches = @ + 1]
            /\ kitRequests' = Append(kitRequests, kitRequests[Len(kitRequests)])
       ELSE /\ req' = [req EXCEPT ![i] =
                   A_CallUpdateKitSyncStatus(@, A_FetchStatus(outcome))]
            /\ UNCHANGED kitRequests
    /\ UNCHANGED <<env, limiter, healthChecks, now, clientsInitialized, surveyResponses, userTags,
                   subscribers, calls>>

\* the fetch of syncTagsToKit settles
A_Fetch(i, outcome) ==
    /\ impl = "A"
    /\ req[i].pc = "fetch"
    /\ req' = [req EXCEPT ![i] =
           A_CallUpdateKitSyncStatus(@, A_FetchStatus(outcome))]
    /\ UNCHANGED <<env, limiter, healthChecks, now, clientsInitialized, surveyResponses, userTags,
                   subscribers, kitRequests, calls>>

\* the success response of the handler
A_ResponseData(r) ==
    [tagsProcessed |-> Len(r.payload.selectedTags),
     recommendationsCount |-> Len(r.payload.recommendations),
     totalTags |-> r.tagResult.totalTags,
     savedTags |-> r.tagResult.successCount,
     failedTags |-> r.tagResult.failedCount,
     kitSyncStatus |-> r.kitStatus]

\* updateEntity(entity, 'Merge') of updateKitSyncStatus settles; an error
\* (storage fault, or no entity under that key) is caught and logged
A_UpdateKitSyncStatus(i, fault) ==
    /\ impl = "A"
    /\ req[i].pc = "patch"
    /\ LET u == req[i].patch
           key == <<u.partitionKey, u.rowKey>>
           lands == ~fault /\ key \in DOMAIN surveyResponses
       IN /\ surveyResponses' =
                IF lands
                THEN [surveyResponses EXCEPT ![key] = MergeEntity(@, u)]
                ELSE surveyResponses
          /\ req' = [req EXCEPT ![i] =
                Respond([@ EXCEPT !.patchLanded = lands, !.patchFaulted = fault],
                        createSuccessResponse(A_ResponseData(@)))]
    /\ UNCHANGED <<env, limiter, healthChecks, now, clientsInitialized, userTags, subscribers, kitRequests, calls>>

\* ================================================== implementation B =====
\* the subscribers table holds one subscriber, registered as ann@x.io
InitialSubscribers ==
    [k \in {"ann@x.io"} |->
        [partitionKey |-> "user1", rowKey |-> k, Email |-> k, tags |-> <<>>,
         lastTagUpdate |-> NoTime, kitSyncStatus |-> "", kitSyncedAt |-> NoTime,
         updatedAt |-> NoTime,
         answers |-> <<>>]]     \* the properties Q<n> and Q<n>_other

\* getSubscriberByEmail: the first entity with Email eq email, or NoEntity (null)
getSubscriberByEmail(email) ==
    LET found == {k \in DOMAIN subscribers : subscribers[k].Email = email}
    IN IF found = {} THEN NoEntity ELSE subscribers[CHOOSE k \in found : TRUE]

\* getUserTags(email): the subscriber is looked up by its property email (the
\* table's property is Email), and every property whose name starts with tag_
\* gives one entry: tag_<name>, tag_<name>_source and tag_<name>_createdAt.
\* The tagName of an entry is the property's value, here <<text, time>>
getUserTags(email) ==
    LET found == {k \in DOMAIN subscribers :
                     /\ "email" \in DOMAIN subscribers[k]
                     /\ subscribers[k]["email"] = email}
    IN IF found = {} THEN {}
       ELSE LET sub == subscribers[CHOOSE k \in found : TRUE]
            IN UNION {{[tagName |-> <<sub.tags[t].tagName, NoTime>>, email |-> email,
                        tagSource |-> "survey"],
                       [tagName |-> <<sub.tags[t].source, NoTime>>, email |-> email,
                        tagSource |-> "survey"],
                       [tagName |-> <<"", sub.tags[t].createdAt>>, email |-> email,
                        tagSource |-> "survey"]} : t \in DOMAIN sub.tags}

\* the entity insertSurveyResponse builds; the response id is email_Date.now()
insertSurveyResponse(d) ==
    [partitionKey |-> d.email,
     rowKey |-> <<d.email, now, 0>>,
     therapistId |-> d.therapistId,
     email |-> d.email,
     name |-> d.name,
     surveyData |-> JSONstringify(d.surveyData),
     recommendations |-> JSONstringify(d.recommendations),
     selectedTags |-> JSONstringify(d.selectedTags),
     customResponses |-> JSONstringify(d.customResponses),
     completedAt |-> IF d.timestamp # NoTime THEN d.timestamp ELSE now,
     completed |-> d.completed,
     kitSyncStatus |-> IF d.kitSyncStatus # "" THEN d.kitSyncStatus ELSE "pending",
     kitSyncedAt |-> NoTime,
     kitErrorMessage |-> ""]

\* the argument the handler passes to insertSurveyResponse
B_InsertArgument(value, subscriber) ==
    [therapistId |-> subscriber.rowKey, email |-> value.email, name |-> value.name,
     surveyData |-> value.surveyData, recommendations |-> value.recommendations,
     selectedTags |-> value.selectedTags, customResponses |-> value.customResponses,
     timestamp |-> value.timestamp, completed |-> (value.completed = "true"),
     kitSyncStatus |-> "pending"]

\* updateSubscriberTags, individual tag update: updateEntity(..., 'Merge') of
\* the fields tag_<name>, tag_<name>_source, tag_<name>_createdAt, lastTagUpdate
MergeTag(entity, tagName, tagSource, createdAt) ==
    [entity EXCEPT
        !.tags = [t \in DOMAIN entity.tags \cup {tagName} |->
                     IF t = tagName
                     THEN [tagName |-> tagName, source |-> tagSource,
                           createdAt |-> createdAt]
                     ELSE entity.tags[t]],
        !.lastTagUpdate = now]

\* updateKitSyncStatus, subscriber part: updateEntity(updateData, 'Replace')
\* keeps nothing of the entity but what updateData names
ReplaceSubscriber(found, status) ==
    [partitionKey |-> found.partitionKey, rowKey |-> found.rowKey, Email |-> "",
     tags |-> <<>>, lastTagUpdate |-> NoTime, kitSyncStatus |-> status,
     kitSyncedAt |-> IF status = "success" THEN now ELSE found.kitSyncedAt,
     updatedAt |-> now, answers |-> <<>>]

\* updateKitSyncStatus, survey response part: getEntity(email, responseId) and
\* updateEntity(updateData, 'Replace'); every error in it is caught and logged
UpdateSurveyResponseStatus(table, email, responseId, status, fault) ==
    IF fault \/ <<email, responseId>> \notin DOMAIN table
    THEN table
    ELSE [table EXCEPT ![<<email, responseId>>] =
             [partitionKey |-> email, rowKey |-> responseId,
              kitSyncStatus |-> status,
              kitSyncedAt |-> IF status = "success" THEN now ELSE @.kitSyncedAt]]

\* syncTagsToKit(data) of part_000 up to its fetch.  data is what the caller
\* passed as the single argument; destructuring a string leaves email and tags
\* undefined.  Result: what is thrown, or the request body of the fetch
syncTagsToKit(data) ==
    IF ~kitApiKey
    THEN [threw |-> "KIT_API_KEY environment variable is not set",
          email |-> "", tags |-> <<>>]
    ELSE IF ~data.isObject
    THEN [threw |-> "Cannot read properties of undefined (reading 'map')",
          email |-> "", tags |-> <<>>]
    ELSE [threw |-> "", email |-> data.email, tags |-> data.tags]

\* the handler's call syncTagsToKit(value.email, value.selectedTags), its catch
\* block, and updateKitSyncStatus(subscriber.rowKey, 'failed', kitError) up to
\* its first await.  The call always throws: data is the e-mail string
B_CallSyncTagsToKit(r) ==
    LET result == syncTagsToKit([isObject |-> FALSE, email |-> "", tags |-> <<>>])
    IN [r EXCEPT !.pc = "patchLookup", !.kitStatus = "failed",
                 !.patch = [partitionKey |-> r.subscriber.rowKey,
                            rowKey |-> <<result.threw, NoTime, NoTime>>,
                            kitSyncStatus |-> "failed", kitSyncedAt |-> NoTime]]

B_InternalError(r) ==
    Respond(r, createErrorResponse(500, "Internal server error", {}, <<>>))

\* POST /survey-submission arrives: parse and validate
B_Receive(i, p) ==
    /\ impl = "B"
    /\ req[i].pc = "idle"
    /\ i > 1 => req[i - 1].pc # "idle"
    /\ LET r == [req[i] EXCEPT !.payload = p]
           errors == surveySchema(p)
       IN req' = [req EXCEPT ![i] =
              IF errors # {}
              THEN Respond(r, createErrorResponse(400, "Validation failed",
                                                  {FirstViolation(errors)}, <<>>))
              ELSE [r EXCEPT !.pc = "ensureTables"]]
    /\ UNCHANGED <<env, limiter, healthChecks, now, clientsInitialized, surveyResponses, userTags,
                   subscribers, kitRequests, calls>>

\* ensureTablesExist() of part_001 settles: it logs createTable errors and returns
B_EnsureTables(i) ==
    /\ impl = "B"
    /\ req[i].pc = "ensureTables"
    /\ req' = [req EXCEPT ![i].pc = "lookup"]
    /\ UNCHANGED <<env, limiter, healthChecks, now, clientsInitialized, surveyResponses, userTags,
                   subscribers, kitRequests, calls>>

\* a lookup after which the handler goes on without a subscriber
B_GetSubscriberGoesOn(i, fault) ==
    /\ impl = "B"
    /\ req[i].pc = "lookup"
    /\ LET subscriber == getSubscriberByEmail(req[i].payload.email)
       IN req' = [req EXCEPT ![i] =
              IF fault THEN B_InternalError(@)
              ELSE [@ EXCEPT !.pc = "create", !.subscriber = subscriber,
                             !.entity = insertSurveyResponse(
                                            B_InsertArgument(req[i].payload, subscriber))]]
    /\ UNCHANGED <<env, limiter, healthChecks, now, clientsInitialized, surveyResponses, userTags,
                   subscribers, kitRequests, calls>>

\* getSubscriberByEmail(value.email) settles
B_GetSubscriber(i, fault) ==
    /\ impl = "B"
    /\ req[i].pc = "lookup"
    /\ LET subscriber == getSubscriberByEmail(req[i].payload.email)
       IN req' = [req EXCEPT ![i] =
              IF fault THEN B_InternalError(@)
              ELSE IF subscriber = NoEntity
              THEN Respond(@, createErrorResponse(404, "Subscriber not found", {}, <<>>))
              ELSE [@ EXCEPT !.pc = "create", !.subscriber = subscriber,
                             !.entity = insertSurveyResponse(
                                            B_InsertArgument(req[i].payload, subscriber))]]
    /\ UNCHANGED <<env, limiter, healthChecks, now, clientsInitialized, surveyResponses, userTags,
                   subscribers, kitRequests, calls>>

\* the handler after insertSurveyResponse returned: start updateSubscriberTags
\* for every tag; with no tag, Promise.all resolves at once
B_AfterInsert(r) ==
    LET r2 == [r EXCEPT !.appended = TRUE, !.pc = "tags",
                        !.tagTasks = [k \in 1..Len(r.payload.selectedTags) |-> "lookup"],
                        !.tagCreatedAt = now]
    IN IF r.payload.selectedTags = <<>> THEN B_CallSyncTagsToKit(r2) ELSE r2

\* createEntity of insertSurveyResponse settles
B_CreateEntity(i, fault) ==
    /\ impl = "B"
    /\ req[i].pc = "create"
    /\ LET e == req[i].entity
       IN IF fault \/ <<e.partitionKey, e.rowKey>> \in DOMAIN surveyResponses
          THEN /\ req' = [req EXCEPT ![i] =
                     B_InternalError([@ EXCEPT !.appendFaulted = TRUE])]
               /\ UNCHANGED surveyResponses
          ELSE /\ surveyResponses' = CreateEntity(surveyResponses, e)
               /\ req' = [req EXCEPT ![i] = B_AfterInsert(@)]
    /\ UNCHANGED <<env, limiter, healthChecks, now, clientsInitialized, userTags, subscribers, kitRequests, calls>>

\* the handler awaiting Promise.all(tagPromises) when task k has settled:
\* a rejection goes to the outer catch, the last fulfilment lets it go on
B_AwaitTags(r) ==
    IF r.pc # "tags" THEN r
    ELSE IF \E j \in DOMAIN r.tagTasks : r.tagTasks[j] = "failed"
    THEN B_InternalError(r)
    ELSE IF \A j \in DOMAIN r.tagTasks : r.tagTasks[j] = "success"
    THEN B_CallSyncTagsToKit(r)
    ELSE r

\* getSubscriberByEmail of one updateSubscriberTags settles; the promises run
\* on whether or not the handler still waits for them
B_TagLookup(i, k, fault) ==
    /\ impl = "B"
    /\ k \in DOMAIN req[i].tagTasks
    /\ req[i].tagTasks[k] = "lookup"
    /\ LET notFound == getSubscriberByEmail(req[i].payload.email) = NoEntity
       IN req' = [req EXCEPT ![i] =
              B_AwaitTags([@ EXCEPT !.tagTasks[k] =
                              IF fault \/ notFound THEN "failed" ELSE "update"])]
    /\ UNCHANGED <<env, limiter, healthChecks, now, clientsInitialized, surveyResponses, userTags,
                   subscribers, kitRequests, calls>>

\* updateEntity(tagUpdateEntity, 'Merge') of one updateSubscriberTags settles
B_TagUpdate(i, k, fault) ==
    /\ impl = "B"
    /\ k \in DOMAIN req[i].tagTasks
    /\ req[i].tagTasks[k] = "update"
    /\ LET key == req[i].subscriber.rowKey
       IN /\ subscribers' =
                IF fault THEN subscribers
                ELSE [subscribers EXCEPT ![key] =
                         MergeTag(@, req[i].payload.selectedTags[k], "survey",
                                  req[i].tagCreatedAt)]
          /\ req' = [req EXCEPT ![i] =
                B_AwaitTags([@ EXCEPT !.tagTasks[k] =
                                IF fault THEN "failed" ELSE "success"])]
    /\ UNCHANGED <<env, limiter, healthChecks, now, clientsInitialized, surveyResponses, userTags,
                   kitRequests, calls>>

\* updateKitSyncStatus: getSubscriberByEmail(email) settles; email is the
\* first argument, for which the handler passes subscriber.rowKey
B_PatchLookup(i, fault) ==
    /\ impl = "B"
    /\ req[i].pc = "patchLookup"
    /\ LET found == getSubscriberByEmail(req[i].patch.partitionKey)
       IN req' = [req EXCEPT ![i] =
              IF fault THEN B_InternalError(@)
              ELSE IF found = NoEntity THEN [@ EXCEPT !.pc = "patchSurvey"]
              ELSE [@ EXCEPT !.pc = "patchSubscriber", !.subscriber = found]]
    /\ UNCHANGED <<env, limiter, healthChecks, now, clientsInitialized, surveyResponses, userTags,
                   subscribers, kitRequests, calls>>

\* updateKitSyncStatus: updateEntity(updateData, 'Replace') of the subscriber settles
B_PatchSubscriber(i, fault) ==
    /\ impl = "B"
    /\ req[i].pc = "patchSubscriber"
    /\ IF fault
       THEN /\ req' = [req EXCEPT ![i] = B_InternalError([@ EXCEPT !.patchFaulted = TRUE])]
            /\ UNCHANGED subscribers
       ELSE /\ subscribers' = [subscribers EXCEPT ![req[i].subscriber.rowKey] =
                   ReplaceSubscriber(req[i].subscriber, req[i].patch.kitSyncStatus)]
            /\ req' = [req EXCEPT ![i].pc = "patchSurvey"]
    /\ UNCHANGED <<env, limiter, healthChecks, now, clientsInitialized, surveyResponses, userTags,
                   kitRequests, calls>>

\* the success response of the handler
B_ResponseData(r) ==
    [tagsProcessed |-> Len(r.payload.selectedTags),
     recommendationsCount |-> Len(r.payload.recommendations),
     totalTags |-> -1, savedTags |-> -1, failedTags |-> -1,
     kitSyncStatus |-> r.kitStatus]

\* updateKitSyncStatus: the survey response part settles (responseId is the
\* third argument, for which the handler passes kitError), then the handler
\* returns its success response
B_PatchSurvey(i, fault) ==
    /\ impl = "B"
    /\ req[i].pc = "patchSurvey"
    /\ LET u == req[i].patch
       IN /\ surveyResponses' =
                UpdateSurveyResponseStatus(surveyResponses, u.partitionKey, u.rowKey,
                                           u.kitSyncStatus, fault)
          /\ req' = [req EXCEPT ![i] =
                Respond([@ EXCEPT !.patchLanded = (surveyResponses' # surveyResponses),
                                  !.patchFaulted = fault],
                        createSuccessResponse(B_ResponseData(@)))]
    /\ UNCHANGED <<env, limiter, healthChecks, now, clientsInitialized, userTags, subscribers, kitRequests, calls>>

\* ------------------------------------------------------------------ clock
\* Date.now() advances; the clock is followed until the last request has arrived
Tick ==
    /\ now < MaxClock
    /\ req[MaxRequests].pc = "idle"
    /\ now' = now + 1
    /\ UNCHANGED <<env, limiter, healthChecks, clientsInitialized, surveyResponses, userTags, subscribers,
                   kitRequests, req, calls>>

\* ------------------------------------------- the operations, called directly
\* The exported operations are also called one at a time, each call running to
\* its end before the next: calls is the record of the calls made so far.
UnitEmails == {"ann@x.io", "Ann@x.io"}

UnitTagLists == {<<"pop_adults", "role_other">>, <<"mod_cbt">>, <<"mod_other">>}

UnitStatuses == {"success", "failed"}

\* the row keys a caller may name: those stored, and one that is not
UnitKeys == DOMAIN surveyResponses \cup {<<"ann@x.io", <<"", 9, 9>>>>}

\* one entry of calls
Call(op, email, tags, at, threw, result, tagResult, tagsAfter) ==
    [op |-> op, email |-> email, tags |-> tags, at |-> at, threw |-> threw,
     result |-> result, tagResult |-> tagResult,
     outcome |-> "",                    \* how the fetch of the call settled
     completed |-> "",                  \* the completed value handed to the call
     requests |-> Len(kitRequests),     \* the requests sent before the call
     responses |-> surveyResponses,     \* the response table before the call
     keys |-> DOMAIN tagsAfter]         \* the tag keys after the call

\* every upsert of one saveUserTags call, tasks[k] telling how the k-th settled
RECURSIVE UpsertEach(_, _, _, _, _)
UpsertEach(table, email, tags, tasks, createdAt) ==
    IF tags = <<>> THEN table
    ELSE UpsertEach(IF Head(tasks) = "success"
                    THEN UpsertReplace(table, UserTagEntity(email, Head(tags), createdAt))
                    ELSE table,
                    email, Tail(tags), Tail(tasks), createdAt)

\* syncTagsToKit(email, selectedTags, context) of survey-submission.js
U_syncTagsToKit_A(email, tags, outcome) ==
    /\ impl = "A"
    /\ Len(calls) < MaxCalls
    /\ LET sent == A_syncTagsToKit(email, tags)
       IN /\ kitRequests' = IF sent.skipped THEN kitRequests
                            ELSE Append(kitRequests, KitRequest(sent.email, sent.tags, tags))
          /\ calls' = Append(calls,
                [Call("syncTagsToKit", email, tags, now, "",
                      IF sent.skipped THEN "skipped" ELSE A_FetchStatus(outcome),
                      NoTagResult, userTags)
                 EXCEPT !.outcome = IF sent.skipped THEN "" ELSE outcome])
    /\ UNCHANGED <<env, limiter, healthChecks, now, clientsInitialized, surveyResponses, userTags,
                   subscribers, req>>

\* syncTagsToKit({email, tags}) of the Kit.com service: it throws without an
\* API key; success is response.ok, every error of the request is caught
U_syncTagsToKit_B(email, tags, outcome) ==
    /\ impl = "B"
    /\ Len(calls) < MaxCalls
    /\ LET sent == syncTagsToKit([isObject |-> TRUE, email |-> email, tags |-> tags])
       IN /\ kitRequests' = IF sent.threw # "" THEN kitRequests
                            ELSE Append(kitRequests, KitRequest(sent.email, sent.tags, tags))
          /\ calls' = Append(calls,
                [Call("syncTagsToKit", email, tags, now, sent.threw,
                      IF sent.threw # "" THEN ""
                      ELSE IF outcome = "ok" THEN "success" ELSE "failed",
                      NoTagResult, userTags)
                 EXCEPT !.outcome = IF sent.threw # "" THEN "" ELSE outcome])
    /\ UNCHANGED <<env, limiter, healthChecks, now, clientsInitialized, surveyResponses, userTags,
                   subscribers, req>>

\* saveUserTags(email, selectedTags, context) of survey-submission.js
U_saveUserTags(email, tags, tasks) ==
    /\ impl = "A"
    /\ Len(calls) < MaxCalls
    /\ userTags' = UpsertEach(userTags, email, tags, tasks, now)
    /\ calls' = Append(calls,
          Call("saveUserTags", email, tags, now, "", "", saveUserTagsResult(tags, tasks),
               UpsertEach(userTags, email, tags, tasks, now)))
    /\ UNCHANGED <<env, limiter, healthChecks, now, clientsInitialized, surveyResponses, subscribers,
                   kitRequests, req>>

\* saveSurveyResponse(data, context) of survey-submission.js
U_saveSurveyResponse(p, fault) ==
    /\ impl = "A"
    /\ Len(calls) < MaxCalls
    /\ LET e == saveSurveyResponse(p, generateId(0, Len(calls) + 1))
           fails == fault \/ <<e.partitionKey, e.rowKey>> \in DOMAIN surveyResponses
       IN /\ surveyResponses' = IF fails THEN surveyResponses
                                ELSE CreateEntity(surveyResponses, e)
          /\ calls' = Append(calls,
                [Call("saveSurveyResponse", p.email, p.selectedTags, now,
                      IF fails THEN "createEntity" ELSE "", "", NoTagResult, userTags)
                    EXCEPT !.completed = p.completed])
    /\ UNCHANGED <<env, limiter, healthChecks, now, clientsInitialized, userTags, subscribers, kitRequests, req>>

\* updateKitSyncStatus(email, rowKey, syncStatus, context) of survey-submission.js
U_updateKitSyncStatus_A(key, status, fault) ==
    /\ impl = "A"
    /\ Len(calls) < MaxCalls
    /\ LET u == KitStatusEntity(key[1], key[2], status)
           k == <<u.partitionKey, u.rowKey>>
       IN surveyResponses' =
              IF ~fault /\ k \in DOMAIN surveyResponses
              THEN [surveyResponses EXCEPT ![k] = MergeEntity(@, u)]
              ELSE surveyResponses
    /\ calls' = Append(calls,
          Call("updateKitSyncStatus", key[1], <<>>, now, "", status, NoTagResult, userTags))
    /\ UNCHANGED <<env, limiter, healthChecks, now, clientsInitialized, userTags, subscribers, kitRequests, req>>

\* insertSurveyResponse(surveyData) of the storage service
U_insertSurveyResponse(p, fault) ==
    /\ impl = "B"
    /\ Len(calls) < MaxCalls
    /\ LET e == insertSurveyResponse(B_InsertArgument(p, InitialSubscribers["ann@x.io"]))
           fails == fault \/ <<e.partitionKey, e.rowKey>> \in DOMAIN surveyResponses
       IN /\ surveyResponses' = IF fails THEN surveyResponses
                                ELSE CreateEntity(surveyResponses, e)
          /\ calls' = Append(calls,
                [Call("insertSurveyResponse", p.email, p.selectedTags, now,
                      IF fails THEN "createEntity" ELSE "", "", NoTagResult, userTags)
                    EXCEPT !.completed = p.completed])
    /\ UNCHANGED <<env, limiter, healthChecks, now, clientsInitialized, userTags, subscribers, kitRequests, req>>

\* updateKitSyncStatus(email, status, responseId) of the storage service;
\* faultAt names the await that throws: the subscriber lookup, the subscriber
\* update, the survey response update, or none
U_updateKitSyncStatus_B(key, status, faultAt) ==
    /\ impl = "B"
    /\ Len(calls) < MaxCalls
    /\ LET found == getSubscriberByEmail(key[1])
           rethrown == faultAt \in {"lookup", "subscriber"} /\
                       (faultAt = "subscriber" => found # NoEntity)
       IN /\ subscribers' =
                IF faultAt \in {"lookup", "subscriber"} \/ found = NoEntity
                THEN subscribers
                ELSE [subscribers EXCEPT ![found.rowKey] = ReplaceSubscriber(found, status)]
          /\ surveyResponses' =
                IF rethrown THEN surveyResponses
                ELSE UpdateSurveyResponseStatus(surveyResponses, key[1], key[2], status,
                                                faultAt = "survey")
          /\ calls' = Append(calls,
                Call("updateKitSyncStatus", key[1], <<>>, now,
                     IF rethrown THEN faultAt ELSE "", status, NoTagResult, userTags))
    /\ UNCHANGED <<env, limiter, healthChecks, now, clientsInitialized, userTags, kitRequests, req>>

\* -------------------------------------------------- question endpoints
\* Values of a request body: a string is plain text or the JSON text of an
\* array, an answer may also be an array
PlainString(text) == [type |-> "string", json |-> FALSE, items |-> <<text>>]
ArrayText(items) == [type |-> "string", json |-> TRUE, items |-> items]
ArrayValue(items) == [type |-> "array", json |-> FALSE, items |-> items]

\* a question number as the callers give it: the number n or the string "Q<n>"
QNumber(n) == [isNumber |-> TRUE, n |-> n]
QString(n) == [isNumber |-> FALSE, n |-> n]

\* the template strings `Q${questionNumber}` and `Q${questionNumber}_other`:
\* a property name is <<letters, n, suffix>>
questionField(questionNumber) ==
    <<IF questionNumber.isNumber THEN "Q" ELSE "QQ", questionNumber.n, "">>
otherField(questionNumber) ==
    <<IF questionNumber.isNumber THEN "Q" ELSE "QQ", questionNumber.n, "_other">>

\* a property value that JavaScript takes as true: a non-empty string
Truthy(value) == value # PlainString("")

\* the entity updateQuestionAnswer hands to updateEntity(updateData, 'Replace'):
\* keys, updatedAt, the question field (an array as JSON text) and, for the
\* numbers 2 and 6, the other-text; 'Replace' keeps no other property
QuestionUpdateEntity(subscriber, questionNumber, answer, otherText) ==
    [partitionKey |-> subscriber.partitionKey, rowKey |-> subscriber.rowKey,
     Email |-> "", tags |-> <<>>, lastTagUpdate |-> NoTime, kitSyncStatus |-> "",
     kitSyncedAt |-> NoTime, updatedAt |-> now,
     answers |->
        [f \in {questionField(questionNumber)}
                \cup (IF otherText # "" /\ questionNumber.isNumber
                         /\ questionNumber.n \in {2, 6}
                      THEN {otherField(questionNumber)} ELSE {}) |->
            IF f = questionField(questionNumber)
            THEN (IF answer.type = "array" THEN ArrayText(answer.items) ELSE answer)
            ELSE PlainString(otherText)]]

\* getQuestionAnswers(email).answers: for Q1..Q6 the stored value, parsed when
\* it is the JSON text of an array, and the other-text when present
getQuestionAnswers(email) ==
    LET subscriber == getSubscriberByEmail(email)
        stored == IF subscriber = NoEntity THEN <<>> ELSE subscriber.answers
        read == {f \in DOMAIN stored :
                    f[1] = "Q" /\ f[2] \in 1..6 /\ Truthy(stored[f])}
    IN [f \in read |->
           IF f[3] = "" /\ stored[f].json THEN ArrayValue(stored[f].items)
           ELSE stored[f]]

\* getSurveyProgress(email).completedQuestions
getSurveyProgress(email) ==
    LET subscriber == getSubscriberByEmail(email)
    IN IF subscriber = NoEntity THEN {}
       ELSE {n \in 1..6 : /\ <<"Q", n, "">> \in DOMAIN subscriber.answers
                          /\ Truthy(subscriber.answers[<<"Q", n, "">>])}

\* getSurveyProgress(email).progress: Math.round((length / 6) * 100)
surveyProgressPercent(email) ==
    (200 * Cardinality(getSurveyProgress(email)) + 6) \div 12

\* getSurveyProgress(email).nextQuestion: length + 1 while length < 6, else
\* null (written 0); 1 when there is no subscriber
surveyProgressNext(email) ==
    IF getSubscriberByEmail(email) = NoEntity THEN 1
    ELSE IF Cardinality(getSurveyProgress(email)) < 6
         THEN Cardinality(getSurveyProgress(email)) + 1
         ELSE 0

\* the inputs of the question endpoints
QuestionNumbers == {QNumber(1), QNumber(2), QString(1), QString(2)}
QuestionAnswers ==
    {PlainString("setting_mixed"), PlainString(""), ArrayText(<<"pop_adults">>),
     ArrayValue(<<"pop_adults", "pop_couples">>)}

\* one entry of calls for a question operation
QuestionCall(op, email, questionNumber, answer, status) ==
    [op |-> op, email |-> email, questionNumber |-> questionNumber,
     answer |-> answer, status |-> status,
     before |-> subscribers]            \* the subscribers table before the call

\* updateQuestionAnswer(email, questionNumber, answer, otherText) called
\* directly; faultAt names the await that throws
U_updateQuestionAnswer(email, questionNumber, answer, otherText, faultAt) ==
    /\ impl = "B"
    /\ Len(calls) < MaxCalls
    /\ LET subscriber == getSubscriberByEmail(email)
           threw == faultAt # "none" \/ subscriber = NoEntity
       IN /\ subscribers' =
                IF threw THEN subscribers
                ELSE [subscribers EXCEPT ![subscriber.rowKey] =
                         QuestionUpdateEntity(subscriber, questionNumber, answer,
                                              otherText)]
          /\ calls' = Append(calls,
                QuestionCall("updateQuestionAnswer", email, questionNumber, answer,
                             IF threw THEN 500 ELSE 200))
    /\ UNCHANGED <<env, limiter, healthChecks, now, clientsInitialized, surveyResponses, userTags,
                   kitRequests, req>>

\* POST question/update: the body is validated (questionNumber a string
\* "Q1".."Q6", answer a non-empty string of the body), then
\* updateQuestionAnswer(email, questionNumber, answer, timestamp) is awaited;
\* whatever it throws is answered 500 by the route
handleQuestionUpdate(email, questionNumber, answer, faultAt) ==
    /\ impl = "B"
    /\ Len(calls) < MaxCalls
    /\ LET valid == /\ IsEmail(email) /\ ~questionNumber.isNumber
                    /\ answer.type = "string" /\ Truthy(answer)
           subscriber == getSubscriberByEmail(email)
           threw == faultAt # "none" \/ subscriber = NoEntity
       IN /\ subscribers' =
                IF ~valid \/ threw THEN subscribers
                ELSE [subscribers EXCEPT ![subscriber.rowKey] =
                         QuestionUpdateEntity(subscriber, questionNumber, answer,
                                              "timestamp")]
          /\ calls' = Append(calls,
                QuestionCall("handleQuestionUpdate", email, questionNumber, answer,
                             IF ~valid THEN 400 ELSE IF threw THEN 500 ELSE 200))
    /\ UNCHANGED <<env, limiter, healthChecks, now, clientsInitialized, surveyResponses, userTags,
                   kitRequests, req>>

\* getSurveyProgress(email) called directly: it reads the subscribers table
U_getSurveyProgress(email) ==
    /\ impl = "B"
    /\ Len(calls) < MaxCalls
    /\ calls' = Append(calls,
          [op |-> "getSurveyProgress", email |-> email,
           exists |-> getSubscriberByEmail(email) # NoEntity,
           progress |-> surveyProgressPercent(email),
           completedQuestions |-> getSurveyProgress(email),
           nextQuestion |-> surveyProgressNext(email)])
    /\ UNCHANGED <<env, limiter, healthChecks, now, clientsInitialized, surveyResponses, userTags,
                   subscribers, kitRequests, req>>

\* sanitizeInput(input) called directly
U_sanitizeInput(input) ==
    /\ Len(calls) < MaxCalls
    /\ calls' = Append(calls,
          [op |-> "sanitizeInput", input |-> input, output |-> sanitizeValue(input)])
    /\ UNCHANGED <<env, limiter, healthChecks, now, clientsInitialized, surveyResponses, userTags,
                   subscribers, kitRequests, req>>

\* ------------------------------------------------------- rate limiter
\* this.windowMs and this.maxRequests of the RateLimiter
windowMs == 60000
maxRequests == 5

\* the callers of the limiter, and the milliseconds that pass between calls
Identifiers == {"ip1", "ip2"}
ClockSteps == {29999, 30000}

\* a limit that lets one request more through
LimitExceeded(recentRequests) == Len(recentRequests) > maxRequests

\* recentRequests.length >= this.maxRequests
LimitReached(recentRequests) == Len(recentRequests) >= maxRequests

\* userRequests.filter(timestamp => timestamp > windowStart)
RecentRequests(userRequests, windowStart) ==
    SelectSeq(userRequests, LAMBDA timestamp : timestamp > windowStart)

\* rateLimiter.isAllowed(identifier): the timestamps of the identifier that are
\* inside the window are kept, and the call is recorded among them unless the
\* limit is reached
isAllowed(identifier) ==
    /\ Len(limiterCalls) < MaxLimiterCalls
    /\ LET windowStart == now - windowMs
           userRequests == IF identifier \in DOMAIN limiterRequests
                           THEN limiterRequests[identifier] ELSE <<>>
           recentRequests == RecentRequests(userRequests, windowStart)
           allowed == ~LimitReached(recentRequests)
           stored == IF allowed THEN Append(recentRequests, now) ELSE recentRequests
       IN /\ limiterRequests' =
                [id \in DOMAIN limiterRequests \cup {identifier} |->
                    IF id = identifier THEN stored ELSE limiterRequests[id]]
          /\ limiterCalls' = Append(limiterCalls,
                [identifier |-> identifier, at |-> now, allowed |-> allowed])
    /\ UNCHANGED <<env, limiterQueries, healthChecks, now, clientsInitialized,
                   surveyResponses, userTags, subscribers, kitRequests, req, calls>>

\* a count of the stored timestamps that does not filter by the window
getRemainingUnfiltered(identifier) ==
    IF identifier \notin DOMAIN limiterRequests THEN maxRequests
    ELSE IF maxRequests - Len(limiterRequests[identifier]) > 0
         THEN maxRequests - Len(limiterRequests[identifier]) ELSE 0

\* what getRemainingRequests(identifier) returns:
\* Math.max(0, this.maxRequests - recentRequests.length)
getRemainingRequests(identifier) ==
    IF identifier \notin DOMAIN limiterRequests THEN maxRequests
    ELSE LET recentRequests ==
                 RecentRequests(limiterRequests[identifier], now - windowMs)
         IN IF maxRequests - Len(recentRequests) > 0
            THEN maxRequests - Len(recentRequests) ELSE 0

\* a call of getRemainingRequests(identifier): it filters a copy of the stored
\* list and stores nothing
U_getRemainingRequests(identifier) ==
    /\ limiterQueries < MaxLimiterQueries
    /\ limiterQueries' = limiterQueries + 1
    /\ UNCHANGED <<env, limiterRequests, limiterCalls, healthChecks, now,
                   clientsInitialized, surveyResponses, userTags, subscribers,
                   kitRequests, req, calls>>

\* time passes between two calls of the limiter
Advance(d) ==
    /\ now + d <= MaxLimiterClock
    /\ now' = now + d
    /\ UNCHANGED <<env, limiter, healthChecks, clientsInitialized, surveyResponses, userTags,
                   subscribers, kitRequests, req, calls>>

\* -------------------------------------------------------- health endpoint
\* how the fetch of testKitConnection settles: response.ok, another HTTP
\* status, or a thrown error (timeout, network)
HealthFetchOutcomes == {"ok", "httpError", "timeout"}

\* testKitConnection().success
testKitConnection(outcome) == kitApiKey /\ outcome = "ok"

\* the statusCode the handler derives from healthStatus.status
healthStatusCode(status) ==
    IF status = "healthy" THEN 200 ELSE IF status = "degraded" THEN 206 ELSE 503

\* the health handler of part_002.  storageConnected is what testConnection()
\* resolved to; testConnection and testKitConnection catch their own errors,
\* so the try block of the handler does not throw
health(method, storageConnected, outcome) ==
    /\ impl = "B"
    /\ Len(healthChecks) < MaxHealthChecks
    /\ LET kitSuccess == testKitConnection(outcome)
           status0 == "healthy"
           status1 == IF ~storageConnected THEN "unhealthy" ELSE status0
           status2 == IF ~kitSuccess THEN "degraded" ELSE status1
       IN healthChecks' = Append(healthChecks,
             IF method = "OPTIONS"
             THEN [method |-> method, storageConnected |-> FALSE, kitSuccess |-> FALSE,
                   statusCode |-> 200, status |-> "", azureStorage |-> "", kitApi |-> ""]
             ELSE [method |-> method, storageConnected |-> storageConnected,
                   kitSuccess |-> kitSuccess,
                   statusCode |-> healthStatusCode(status2), status |-> status2,
                   azureStorage |-> IF storageConnected THEN "connected"
                                    ELSE "disconnected",
                   kitApi |-> IF kitSuccess THEN "accessible" ELSE "error"])
    /\ UNCHANGED <<env, limiter, now, clientsInitialized, surveyResponses, userTags,
                   subscribers, kitRequests, req, calls>>

\* ---------------------------------------------------------- specification
Init ==
    /\ impl \in {"A", "B"}
    /\ kitApiKey \in BOOLEAN
    /\ createResultHasRowKey \in (IF impl = "A" THEN BOOLEAN ELSE {FALSE})
    /\ now = 0
    /\ clientsInitialized = FALSE
    /\ surveyResponses = <<>>
    /\ userTags = <<>>
    /\ subscribers = InitialSubscribers
    /\ kitRequests = <<>>
    /\ req = [i \in Requests |-> IdleRequest]
    /\ calls = <<>>
    /\ limiterRequests = <<>>
    /\ limiterCalls = <<>>
    /\ limiterQueries = 0
    /\ healthChecks = <<>>

Next ==
    \/ \E i \in Requests, p \in Payloads : A_Receive(i, p)
    \/ \E i \in Requests, fault \in BOOLEAN : A_EnsureTables(i, fault)
    \/ \E i \in Requests, fault \in BOOLEAN : A_CreateEntity(i, fault)
    \/ \E i \in Requests, k \in 1..2, fault \in BOOLEAN : A_UpsertTag(i, k, fault)
    \/ \E i \in Requests, outcome \in FetchOutcomes : A_Fetch(i, outcome)
    \/ \E i \in Requests, fault \in BOOLEAN : A_UpdateKitSyncStatus(i, fault)
    \/ \E i \in Requests, p \in Payloads : B_Receive(i, p)
    \/ \E i \in Requests : B_EnsureTables(i)
    \/ \E i \in Requests, fault \in BOOLEAN : B_GetSubscriber(i, fault)
    \/ \E i \in Requests, fault \in BOOLEAN : B_CreateEntity(i, fault)
    \/ \E i \in Requests, k \in 1..2, fault \in BOOLEAN : B_TagLookup(i, k, fault)
    \/ \E i \in Requests, k \in 1..2, fault \in BOOLEAN : B_TagUpdate(i, k, fault)
    \/ \E i \in Requests, fault \in BOOLEAN : B_PatchLookup(i, fault)
    \/ \E i \in Requests, fault \in BOOLEAN : B_PatchSubscriber(i, fault)
    \/ \E i \in Requests, fault \in BOOLEAN : B_PatchSurvey(i, fault)
    \/ Tick

Spec == Init /\ [][Next]_vars

\* the operations called directly, one call after the other
NextUnit ==
    \/ \E email \in UnitEmails, tags \in UnitTagLists, outcome \in FetchOutcomes :
            U_syncTagsToKit_A(email, tags, outcome)
    \/ \E email \in UnitEmails, tags \in UnitTagLists, outcome \in FetchOutcomes :
            U_syncTagsToKit_B(email, tags, outcome)
    \/ \E email \in UnitEmails, tags \in UnitTagLists :
            \E tasks \in [1..Len(tags) -> {"success", "failed"}] :
                U_saveUserTags(email, tags, tasks)
    \/ \E email \in UnitEmails, completed \in {"true", "false", ""}, fault \in BOOLEAN :
            U_saveSurveyResponse(
                [BasePayload EXCEPT !.email = email, !.completed = completed], fault)
    \/ \E key \in UnitKeys, status \in UnitStatuses, fault \in BOOLEAN :
            U_updateKitSyncStatus_A(key, status, fault)
    \/ \E email \in UnitEmails, completed \in {"true", "false"}, fault \in BOOLEAN :
            U_insertSurveyResponse(
                [BasePayload EXCEPT !.email = email, !.completed = completed], fault)
    \/ \E key \in UnitKeys, status \in UnitStatuses,
          faultAt \in {"none", "lookup", "subscriber", "survey"} :
            U_updateKitSyncStatus_B(key, status, faultAt)
    \/ Tick

SpecUnit == Init /\ [][NextUnit]_vars

\* the question endpoints of the storage service, called one after the other
InitQuestions ==
    /\ Init
    /\ impl = "B" /\ ~kitApiKey

NextQuestions ==
    \/ \E email \in UnitEmails, questionNumber \in QuestionNumbers,
          answer \in QuestionAnswers, otherText \in {"", "coach"},
          faultAt \in {"none", "lookup", "update"} :
            U_updateQuestionAnswer(email, questionNumber, answer, otherText, faultAt)
    \/ \E email \in UnitEmails, questionNumber \in QuestionNumbers,
          answer \in QuestionAnswers, faultAt \in {"none", "lookup", "update"} :
            handleQuestionUpdate(email, questionNumber, answer, faultAt)
    \/ Tick

SpecQuestions == InitQuestions /\ [][NextQuestions]_vars

\* the rate limiter on its own: isAllowed calls of the callers, and the clock
InitLimiter ==
    /\ Init
    /\ impl = "A" /\ ~kitApiKey /\ ~createResultHasRowKey

NextLimiter ==
    \/ \E identifier \in Identifiers : isAllowed(identifier)
    \/ \E d \in ClockSteps : Advance(d)

SpecLimiter == InitLimiter /\ [][NextLimiter]_vars

\* the rate limiter with callers that also ask for the remaining requests
NextRemaining ==
    \/ NextLimiter
    \/ \E identifier \in Identifiers : U_getRemainingRequests(identifier)

SpecRemaining == InitLimiter /\ [][NextRemaining]_vars

\* getSurveyProgress over the subscriber records the table may hold.  The
\* subscribers are registered outside this code base; of the properties
\* Q1..Q6 (schema.sql) each is absent, an empty string, or an answer
InitProgress ==
    /\ impl = "B"
    /\ kitApiKey = FALSE
    /\ createResultHasRowKey = FALSE
    /\ now = 0
    /\ clientsInitialized = FALSE
    /\ surveyResponses = <<>>
    /\ userTags = <<>>
    /\ \E stored \in [1..6 -> {"absent", "empty", "answered"}] :
          subscribers =
              [k \in DOMAIN InitialSubscribers |->
                  [InitialSubscribers[k] EXCEPT !.answers =
                      [f \in {<<"Q", n, "">> : n \in {m \in 1..6 : stored[m] # "absent"}} |->
                          PlainString(IF stored[f[2]] = "empty" THEN ""
                                      ELSE "setting_mixed")]]]
    /\ kitRequests = <<>>
    /\ req = [i \in Requests |-> IdleRequest]
    /\ calls = <<>>
    /\ limiterRequests = <<>>
    /\ limiterCalls = <<>>
    /\ limiterQueries = 0
    /\ healthChecks = <<>>

NextProgress == \E email \in UnitEmails : U_getSurveyProgress(email)

SpecProgress == InitProgress /\ [][NextProgress]_vars

\* sanitizeInput applied to the input values, one call after the other
NextSanitize == \E input \in SanitizeInputs : U_sanitizeInput(input)

SpecSanitize == InitLimiter /\ [][NextSanitize]_vars

\* the health endpoint, requested again and again
InitHealth == Init /\ impl = "B"

NextHealth ==
    \E method \in {"GET", "OPTIONS"}, storageConnected \in BOOLEAN,
       outcome \in HealthFetchOutcomes :
        health(method, storageConnected, outcome)

SpecHealth == InitHealth /\ [][NextHealth]_vars

\* ------------------------------------------------------------- properties
\* the key of the survey response record request i handed to createEntity
RecordKey(i) == <<req[i].entity.partitionKey, req[i].entity.rowKey>>

\* request i is a validated submission that reached the response-store append
Finished(i) == req[i].pc = "done"

\* what request i wrote or sent: tag upserts started, requests to Kit.com,
\* a status patch handed to the store
NoTagUpsert(i) == req[i].tagTasks = <<>> /\ req[i].tagCreatedAt = NoTime
NoSyncCall(i) == req[i].kitFetches = 0 /\ req[i].kitStatus = ""
NoStatusPatch(i) == req[i].patch = NoEntity /\ ~req[i].patchLanded

\* C1: once the survey response has been appended, the handler answers 200
\* with success:true, whatever the tag upserts, the external sync and the
\* sync-status patch do.
C1_SuccessAfterAppend ==
    \A i \in Requests :
        (req[i].appended /\ Finished(i)) =>
            (req[i].resp.status = 200 /\ req[i].resp.success)

\* the submission of request i violates the schema of implementation A, or
\* names a selected tag outside the catalog
InvalidSubmission(i) ==
    \/ surveySubmissionSchema(req[i].payload) # {}
    \/ Range(req[i].payload.selectedTags) \ validTags # {}

\* C2: a submission that violates the payload schema, or whose selectedTags
\* holds a value outside the catalog, is answered 400 with success:false and
\* writes nothing: no survey response, no tag record, no status patch, no
\* request to the external tag service.
C2_InvalidRejectedWithoutWrites ==
    \A i \in Requests :
        (req[i].pc # "idle" /\ InvalidSubmission(i)) =>
            /\ ~req[i].appended /\ NoTagUpsert(i) /\ NoSyncCall(i) /\ NoStatusPatch(i)
            /\ Finished(i) => (req[i].resp.status = 400 /\ ~req[i].resp.success)

\* C3: when createEntity of the survey response faults for a validated
\* submission, the handler answers 500 with success:false, and that submission
\* makes no tag upsert, no external sync call and no sync-status patch.
C3_AppendFaultIsFatal ==
    \A i \in Requests :
        req[i].appendFaulted =>
            /\ Finished(i) /\ req[i].resp.status = 500 /\ ~req[i].resp.success
            /\ ~req[i].appended
            /\ NoTagUpsert(i) /\ NoSyncCall(i) /\ NoStatusPatch(i)

C3_Witness ==
    \E i \in Requests :
        /\ req[i].appendFaulted /\ Finished(i)
        /\ RecordKey(i) \notin DOMAIN surveyResponses
        /\ Len(req[i].payload.selectedTags) > 0

\* C4: when the external tag sync fails (timeout, network error, non-success
\* HTTP status) and the response store is available, the submission is answered
\* 200 success:true and, once the handler has returned, the record it created
\* has sync-status 'failed'.
C4_FailedSyncIsStored ==
    \A i \in Requests :
        (Finished(i) /\ req[i].kitFetches > 0 /\ req[i].kitStatus = "failed"
            /\ ~req[i].patchFaulted) =>
            /\ req[i].resp.status = 200 /\ req[i].resp.success
            /\ RecordKey(i) \in DOMAIN surveyResponses
            /\ surveyResponses[RecordKey(i)].kitSyncStatus = "failed"

\* C5: the request body sent to the external tag service holds no tag with
\* the 'other' sentinel (role_other, mod_other), and holds every other tag of
\* the list that was handed to the sync.
C5_NoSentinelSent ==
    \A k \in DOMAIN kitRequests :
        /\ \A t \in Range(kitRequests[k].tags) : ~ContainsOther(t)
        /\ \A t \in Range(kitRequests[k].handed) :
              ~ContainsOther(t) => t \in Range(kitRequests[k].tags)

\* the tag keys stored before call n
KeysBefore(n) == IF n = 1 THEN {} ELSE calls[n - 1].keys

\* calls n and n + 1 are saveUserTags calls with the same e-mail and the same
\* set of distinct valid tags, none of whose upserts faults
SameUpsertTwice(n) ==
    /\ n + 1 \in DOMAIN calls
    /\ calls[n].op = "saveUserTags" /\ calls[n + 1].op = "saveUserTags"
    /\ calls[n].email = calls[n + 1].email
    /\ Range(calls[n].tags) = Range(calls[n + 1].tags)
    /\ Range(calls[n].tags) \subseteq validTags
    /\ Cardinality(Range(calls[n].tags)) = Len(calls[n].tags)
    /\ Len(calls[n + 1].tags) = Len(calls[n].tags)
    /\ calls[n].tagResult.failedCount = 0 /\ calls[n + 1].tagResult.failedCount = 0

\* C6: saveUserTags called twice with the same e-mail and the same n distinct
\* valid tags leaves exactly n tag records of these tags for the e-mail (n in
\* all when the e-mail had none before), each with the timestamp of the second
\* call, and the same set of keys as after the first call.
C6_SecondUpsertRefreshes ==
    \A n \in DOMAIN calls :
        (SameUpsertTwice(n) /\ n + 1 = Len(calls)) =>
            LET b == calls[n + 1]
                mail == toLowerCase(b.email)
                ofTags == {k \in DOMAIN userTags : k[1] = mail /\ k[2] \in Range(b.tags)}
                ofMail == {k \in DOMAIN userTags : k[1] = mail}
            IN /\ b.keys = calls[n].keys
               /\ DOMAIN userTags = b.keys
               /\ Cardinality(ofTags) = Len(b.tags)
               /\ \A k \in ofTags : userTags[k].createdAt = b.at
               /\ (\A k \in KeysBefore(n) : k[1] # mail) => ofMail = ofTags

C6_Witness ==
    /\ Len(calls) = 2 /\ SameUpsertTwice(1)
    /\ Len(calls[2].tags) = 2
    /\ calls[1].at < calls[2].at
    /\ Cardinality(DOMAIN userTags) = 2

\* the tag upserts of request i that faulted, and those that succeeded
FailedUpserts(i) == {k \in DOMAIN req[i].tagTasks : req[i].tagTasks[k] = "failed"}
StoredUpserts(i) == {k \in DOMAIN req[i].tagTasks : req[i].tagTasks[k] = "success"}

\* C7: when the upserts of a subset F of the tags fault, the tag upsert
\* returns normally, every tag outside F is stored, and the result reports
\* exactly F as failed and the number of tags outside F as the success count.
C7_TagFaultsIsolated ==
    \A i \in Requests :
        (Finished(i) /\ req[i].appended /\ FailedUpserts(i) # {}) =>
            /\ req[i].resp.status = 200
            /\ req[i].resp.data.failedTags = Cardinality(FailedUpserts(i))
            /\ req[i].resp.data.savedTags =
                    Len(req[i].payload.selectedTags) - Cardinality(FailedUpserts(i))
            /\ Cardinality(StoredUpserts(i)) = req[i].resp.data.savedTags

\* C8: once a survey response record exists, no step changes or removes a
\* field of it other than the sync-status and the sync-timestamp.
C8_ContentImmutable ==
    [][\A k \in DOMAIN surveyResponses :
          /\ k \in DOMAIN surveyResponses'
          /\ \A f \in DOMAIN surveyResponses[k] \ {"kitSyncStatus", "kitSyncedAt"} :
                /\ f \in DOMAIN surveyResponses'[k]
                /\ surveyResponses'[k][f] = surveyResponses[k][f]]_vars

C10_PendingUntilSynced ==
    \A i \in Requests :
        (req[i].appended /\ req[i].pc \in {"tags", "fetch"}) =>
            /\ RecordKey(i) \in DOMAIN surveyResponses
            /\ surveyResponses[RecordKey(i)].kitSyncStatus = "pending"

C10_Witness ==
    \E i \in Requests :
        /\ req[i].appended /\ req[i].pc = "fetch"
        /\ surveyResponses[RecordKey(i)].kitSyncStatus = "pending"
        /\ \E j \in Requests : j # i /\ Finished(j) /\ req[j].patchLanded

\* C11: when the storage update of the sync-status patch faults, the fault is
\* absorbed: the submission is still answered 200 success:true, with the sync
\* outcome in the summary of the response.
C11_PatchFaultAbsorbed ==
    \A i \in Requests :
        (Finished(i) /\ req[i].patchFaulted) =>
            /\ req[i].resp.status = 200 /\ req[i].resp.success
            /\ req[i].resp.data.kitSyncStatus = req[i].kitStatus
            /\ req[i].kitStatus \in {"success", "failed", "skipped"}

\* the requests call n sent to the external tag service
RequestsOf(n) ==
    (IF n < Len(calls) THEN calls[n + 1].requests ELSE Len(kitRequests))
    - calls[n].requests

\* call n is a call of the external tag sync
IsSync(n) == calls[n].op = "syncTagsToKit"

\* the credential is missing, or no tag is left without the 'other' sentinel
NothingToSync(n) == ~kitApiKey \/ validKitTags(calls[n].tags) = <<>>

\* C12: the external tag sync returns 'skipped' and sends no request when
\* KIT_API_KEY is not set or no tag remains after the 'other' sentinel tags
\* are filtered out; it sends a request only when the key is set and a tag
\* remains.
C12_SkippedWithoutRequest ==
    \A n \in DOMAIN calls :
        IsSync(n) =>
            /\ NothingToSync(n) =>
                  (calls[n].threw = "" /\ calls[n].result = "skipped"
                   /\ RequestsOf(n) = 0)
            /\ RequestsOf(n) > 0 => ~NothingToSync(n)

\* C13: the external tag sync never throws and returns one of success,
\* failed, skipped; when it sent a request, a timeout, a network error or a
\* non-success HTTP status gives 'failed' and a success HTTP status 'success'.
C13_SyncNeverThrows ==
    \A n \in DOMAIN calls :
        IsSync(n) =>
            /\ calls[n].threw = ""
            /\ calls[n].result \in {"success", "failed", "skipped"}
            /\ calls[n].outcome \in {"httpError", "timeout"} => calls[n].result = "failed"
            /\ calls[n].outcome \in {"ok", "badBody"} => calls[n].result = "success"
            /\ calls[n].outcome = "" <=> RequestsOf(n) = 0

\* the selectedTags entries of a payload that are not in the catalog
InvalidTagsOf(p) == FilterSeq(p.selectedTags, Range(p.selectedTags) \ validTags)

\* the violated fields of a payload: identity fields, question answers, and
\* selectedTags when it is empty or holds a value outside the catalog
ViolatedFields(p) ==
    surveySubmissionSchema(p)
    \cup {f \in {"selectedTags"} : InvalidTagsOf(p) # <<>>}

\* the fields a 400 response names, and the invalid tags it lists
ReportedFields(resp) ==
    resp.fields \cup {f \in {"selectedTags"} : resp.invalidTags # <<>>}

\* C14: a 400 response lists every violated field of the submission, not only
\* the first one: the reported fields are exactly the violated fields.
C14_AllViolationsReported ==
    \A i \in Requests :
        (Finished(i) /\ req[i].resp.status = 400) =>
            ReportedFields(req[i].resp) = ViolatedFields(req[i].payload)

\* C15: a submission that passes the schema but whose selectedTags holds a
\* value outside the catalog is rejected with 400, and the rejection lists
\* exactly the selectedTags entries that are not in the catalog.
C15_CatalogRejection ==
    \A i \in Requests :
        (req[i].pc # "idle" /\ surveySubmissionSchema(req[i].payload) = {}
            /\ InvalidTagsOf(req[i].payload) # <<>>) =>
            /\ ~req[i].appended
            /\ Finished(i) =>
                  /\ req[i].resp.status = 400
                  /\ req[i].resp.invalidTags = InvalidTagsOf(req[i].payload)

\* the six answers of surveyData that break the rules of their question: a
\* missing answer, a single-select answer that is no string of the allowed
\* set, a multi-select answer that is empty or holds a value outside its set
AnswerViolations(p) ==
    {f \in {"surveyData.setting"} : ~SingleOk(p.surveyData.setting, SettingTags)}
    \cup {f \in {"surveyData.profession"} :
            ~SingleOk(p.surveyData.profession, ProfessionTags)}
    \cup {f \in {"surveyData.populations"} :
            ~MultiOk(p.surveyData.populations, PopulationTags, 1)}
    \cup {f \in {"surveyData.interests"} :
            ~MultiOk(p.surveyData.interests, InterestTags, 1)}
    \cup {f \in {"surveyData.frequency"} :
            ~SingleOk(p.surveyData.frequency, FrequencyTags)}
    \cup {f \in {"surveyData.modalities"} :
            ~MultiOk(p.surveyData.modalities, ModalityTags, 1)}

\* C16: the validator rejects every submission in which one of the six
\* answers is missing, a single-select answer is not a string of its allowed
\* set, or a multi-select answer is empty or holds a value outside its set.
C16_AnswersValidated ==
    \A i \in Requests :
        (req[i].pc # "idle" /\ AnswerViolations(req[i].payload) # {}) =>
            /\ Finished(i) /\ req[i].resp.status = 400
            /\ req[i].resp.fields \cap AnswerViolations(req[i].payload) # {}

\* the tags given as answers in the surveyData of a payload
AnswerTags(p) ==
    UNION {Range(p.surveyData[q].items) :
              q \in {"setting", "profession", "populations", "interests",
                     "frequency", "modalities"}}

\* the tag names with source 'survey' the tag store returns for an e-mail:
\* the usertags partition of the e-mail, or getUserTags of the storage service
TagStoreQuery(email) ==
    IF impl = "A"
    THEN {userTags[k].tagName :
             k \in {j \in DOMAIN userTags :
                       j[1] = toLowerCase(email) /\ userTags[j].tagSource = "survey"}}
    ELSE {e.tagName[1] : e \in {x \in getUserTags(email) : x.tagSource = "survey"}}

\* request i ran its whole pipeline and none of its tag upserts faulted
CompletedWithoutTagFault(i) ==
    /\ Finished(i) /\ req[i].resp.status = 200
    /\ \A k \in DOMAIN req[i].tagTasks : req[i].tagTasks[k] = "success"

\* C17: after the pipeline of an accepted submission has completed with no tag
\* upsert fault, the tag store returns for the submission's e-mail every tag
\* given as an answer in surveyData, with source 'survey'; stated here for the
\* answers that the submission also lists in selectedTags.
C17_AnswerTagsRoundTrip ==
    \A i \in Requests :
        CompletedWithoutTagFault(i) =>
            (AnswerTags(req[i].payload) \cap Range(req[i].payload.selectedTags))
                \subseteq TagStoreQuery(req[i].payload.email)

\* the identity and free-text strings a stored survey response holds: name,
\* e-mail and the text of the custom responses
PersistedStrings(e) == {e.name, e.email, e.customResponses[2]}

\* a string sanitizeInput would leave as it is, as far as the characters it
\* removes and the length it allows are concerned
IsSanitized(str) ==
    /\ \A c \in Range(Chars(str)) : c \notin {"<", ">", "'", "\""}
    /\ Len(Chars(str)) <= SanitizeMaxLength

\* C18: every identity string (name, e-mail) and free-text string that a
\* submission persists in the response store was sanitized before the write:
\* it holds no angle bracket, no quote character, and is not longer than the
\* fixed maximum length.
C18_PersistedStringsSanitized ==
    \A k \in DOMAIN surveyResponses :
        \A str \in PersistedStrings(surveyResponses[k]) : IsSanitized(str)

\* the position of request i in the pipeline: 0 before the append, 1 append,
\* 2 tag upserts, 3 external sync, 4 sync-status patch, 5 response sent
StepRank(i) ==
    CASE req[i].pc \in {"idle", "ensureTables", "lookup"} -> 0
      [] req[i].pc = "create" -> 1
      [] req[i].pc = "tags" -> 2
      [] req[i].pc = "fetch" -> 3
      [] req[i].pc \in {"patch", "patchLookup", "patchSubscriber", "patchSurvey"} -> 4
      [] req[i].pc = "done" -> 5

\* every per-tag upsert of request i has finished, with success or failure
TagUpsertsSettled(i) ==
    \A k \in DOMAIN req[i].tagTasks : req[i].tagTasks[k] \in {"success", "failed"}

\* the external sync of request i was called
SyncStarted(i) ==
    req[i].kitStatus # "" \/ req[i].kitFetches > 0 \/ StepRank(i) \in {3, 4}

\* the sync-status patch of request i was issued
PatchStarted(i) ==
    req[i].patch # NoEntity \/ req[i].patchLanded \/ req[i].patchFaulted

\* the steps request i has taken so far were taken in order
StepsInOrder(i) ==
    /\ req[i].tagTasks # <<>> => req[i].appended
    /\ SyncStarted(i) => (req[i].appended /\ TagUpsertsSettled(i))
    /\ PatchStarted(i) =>
          (req[i].kitStatus \in {"success", "failed", "skipped"} /\ StepRank(i) >= 4)
    /\ StepRank(i) = 5 => TagUpsertsSettled(i)

\* C19: within one submission the steps occur strictly in the order append,
\* tag upserts, external sync, sync-status patch, response: no tag upsert
\* starts before the append succeeded, the sync is not called before every
\* per-tag upsert has finished, the patch is issued only after the sync
\* returned, the response comes last, and no step is entered a second time.
C19_StepOrder ==
    [][\A i \in Requests : StepRank(i)' >= StepRank(i) /\ StepsInOrder(i)']_vars

RECURSIVE FetchesUpTo(_)
\* the requests the submissions 1..n sent to the external tag service
FetchesUpTo(n) == IF n = 0 THEN 0 ELSE req[n].kitFetches + FetchesUpTo(n - 1)

\* C20: for any submission and any sync outcome the pipeline issues at most
\* one request to the external tag service: a failed sync is never sent again
\* within the request, and the service receives no request besides these.
C20_AtMostOneSyncRequest ==
    /\ \A i \in Requests : req[i].kitFetches <= 1
    /\ Len(kitRequests) = FetchesUpTo(MaxRequests)

\* a submission whose one request to the service failed has been answered
C20_Witness ==
    \E i \in Requests :
        /\ Finished(i) /\ req[i].kitStatus = "failed"
        /\ req[i].kitFetches = 1 /\ Len(kitRequests) = 1

\* C21: a submission that passed validation reaches one terminal outcome, and
\* when its append succeeded there is no abort in the middle of the pipeline:
\* the response is the success response, and the tag upserts, the external
\* sync and the attempt to patch the sync status were all carried out before
\* the response was returned.
C21_NoAbortAfterAppend ==
    \A i \in Requests :
        (Finished(i) /\ req[i].appended) =>
            /\ req[i].resp.status = 200
            /\ TagUpsertsSettled(i)
            /\ SyncStarted(i)
            /\ PatchStarted(i)

\* C22: in every success response the summary is accurate: the requested tag
\* count is the number of submitted selectedTags, succeeded + failed =
\* requested, the succeeded count is the number of tag upserts that did not
\* fault, the recommendation count is the number of submitted recommendations
\* and the reported sync status is the outcome of the external sync step.
\* The response of part_002 carries one tag count only (tagsAdded); it is sent
\* only when no upsert faulted, so that count is the succeeded count as well.
C22_SummaryAccurate ==
    \A i \in Requests :
        (Finished(i) /\ req[i].resp.status = 200) =>
            LET d == req[i].resp.data
                requested == Len(req[i].payload.selectedTags)
                succeeded == Cardinality(StoredUpserts(i))
                failed == Cardinality(FailedUpserts(i))
            IN /\ d.tagsProcessed = requested
               /\ succeeded + failed = requested
               /\ d.recommendationsCount = Len(req[i].payload.recommendations)
               /\ d.kitSyncStatus = req[i].kitStatus
               /\ req[i].kitStatus \in {"success", "failed", "skipped"}
               /\ IF impl = "A"
                  THEN /\ d.totalTags = requested
                       /\ d.savedTags = succeeded
                       /\ d.failedTags = failed
                  ELSE failed = 0

\* a success response that reports one saved and one failed tag
C22_Witness ==
    \E i \in Requests :
        /\ Finished(i) /\ req[i].resp.status = 200
        /\ req[i].resp.data.savedTags = 1 /\ req[i].resp.data.failedTags = 1
        /\ req[i].resp.data.kitSyncStatus = "success"

\* the records the tag store holds for an (e-mail, tag name) pair
TagRecords(table, email, tagName) ==
    {j \in DOMAIN table : table[j].email = email /\ table[j].tagName = tagName}

\* C23: for every interleaving of submissions (concurrent submissions for the
\* same e-mail with overlapping tags, a selectedTags list that repeats a tag)
\* the tag store never holds more than one record per (e-mail, tag name) pair,
\* and an upsert of a pair leaves exactly one record of it that carries the
\* timestamp of that upsert: a record is added only when the pair had none.
C23_OneRecordPerTag ==
    [][/\ \A j \in DOMAIN userTags' :
             Cardinality(TagRecords(userTags', userTags'[j].email,
                                    userTags'[j].tagName)) = 1
       /\ \A i \in Requests : \A k \in DOMAIN req[i].tagTasks :
             (/\ impl = "A" /\ req[i].tagTasks[k] = "pending"
              /\ req'[i].tagTasks[k] = "success") =>
                LET mail == toLowerCase(req[i].payload.email)
                    tag == req[i].payload.selectedTags[k]
                    before == TagRecords(userTags, mail, tag)
                    after == TagRecords(userTags', mail, tag)
                IN /\ Cardinality(after) = 1
                   /\ \A j \in after : userTags'[j].createdAt = req[i].tagCreatedAt
                   /\ Cardinality(DOMAIN userTags')
                        = Cardinality(DOMAIN userTags) + (1 - Cardinality(before))
                   /\ \A j \in DOMAIN userTags \ before :
                         j \in DOMAIN userTags' /\ userTags'[j] = userTags[j]]_vars

\* two submissions for one e-mail stored the same tag at different times, one
\* of them from a list that repeats the tag, and the pair has one record
C23_Witness ==
    \E i, j \in Requests :
        /\ i # j /\ Finished(i) /\ Finished(j)
        /\ req[i].tagCreatedAt # req[j].tagCreatedAt
        /\ req[j].payload.selectedTags = <<"pop_adults", "pop_adults">>
        /\ StoredUpserts(j) = {1, 2}
        /\ \E k \in StoredUpserts(i) : req[i].payload.selectedTags[k] = "pop_adults"
        /\ Cardinality(TagRecords(userTags, "ann@x.io", "pop_adults")) = 1

C25_KeysCaseNormalized ==
    /\ LET \* call n appended a survey response
           IsAppend(n) ==
               /\ calls[n].op \in {"saveSurveyResponse", "insertSurveyResponse"}
               /\ calls[n].threw = ""
           \* the partition keys of the survey responses call n added
           NewPartitions(n) ==
               {k[1] : k \in
                   DOMAIN (IF n < Len(calls) THEN calls[n + 1].responses
                           ELSE surveyResponses) \ DOMAIN calls[n].responses}
       IN \A n, m \in DOMAIN calls :
             (/\ IsAppend(n) /\ IsAppend(m)
              /\ toLowerCase(calls[n].email) = toLowerCase(calls[m].email)) =>
                 /\ NewPartitions(n) = {toLowerCase(calls[n].email)}
                 /\ NewPartitions(m) = NewPartitions(n)
    /\ \A n \in DOMAIN calls :
          calls[n].op = "saveUserTags" =>
              \A k \in 1..Len(calls[n].tags) :
                  <<k, calls[n].tags[k]>> \notin Range(calls[n].tagResult.failedTags) =>
                      <<toLowerCase(calls[n].email), calls[n].tags[k]>> \in calls[n].keys
    /\ \A k \in DOMAIN userTags : k[1] = toLowerCase(k[1])

\* the identity lookup of request i has settled and gave no subscriber
LookupGaveNoSubscriber(i) ==
    /\ impl = "B" /\ surveySchema(req[i].payload) = {}
    /\ req[i].pc \notin {"idle", "ensureTables", "lookup"}
    /\ req[i].subscriber = NoEntity

AllowedInWindow(n) ==
    {m \in 1..n : /\ limiterCalls[m].identifier = limiterCalls[n].identifier
                  /\ limiterCalls[m].allowed
                  /\ limiterCalls[m].at > limiterCalls[n].at - windowMs}

\* C27: the rate limiter allows at most 5 requests per minute per identifier:
\* of the isAllowed calls for one identifier that fall within a window shorter
\* than 60 seconds at most 5 return true, and the result of a call depends on
\* the earlier calls for the same identifier only: it is true exactly when
\* fewer than 5 of them were allowed within the last 60 seconds.
C27_FivePerMinute ==
    \A n \in DOMAIN limiterCalls :
        /\ Cardinality(AllowedInWindow(n)) <= maxRequests
        /\ limiterCalls[n].allowed
             <=> Cardinality(AllowedInWindow(n) \ {n}) < maxRequests

\* an identifier was allowed five times and then refused within one window,
\* while the other identifier was allowed in between
C27_Witness ==
    \E n \in DOMAIN limiterCalls :
        /\ ~limiterCalls[n].allowed
        /\ Cardinality(AllowedInWindow(n)) = maxRequests
        /\ \E m \in 1..n :
              /\ limiterCalls[m].identifier # limiterCalls[n].identifier
              /\ limiterCalls[m].allowed
        /\ limiterCalls[1].at < limiterCalls[n].at

C29_QuestionUpdatePreserves ==
    \A n \in DOMAIN calls :
        (calls[n].op = "updateQuestionAnswer" /\ calls[n].status = 200) =>
            LET \* the subscriber the call updated, before and after the call
                old == CHOOSE sub \in {calls[n].before[k] : k \in DOMAIN calls[n].before} :
                           sub.Email = calls[n].email
                new == (IF n < Len(calls) THEN calls[n + 1].before
                        ELSE subscribers)[old.rowKey]
                written == {questionField(calls[n].questionNumber),
                            otherField(calls[n].questionNumber)}
            IN /\ \A f \in DOMAIN old.answers \ written :
                     f \in DOMAIN new.answers /\ new.answers[f] = old.answers[f]
               /\ new.partitionKey = old.partitionKey /\ new.rowKey = old.rowKey
               /\ new.Email = old.Email /\ new.tags = old.tags
               /\ new.lastTagUpdate = old.lastTagUpdate
               /\ new.kitSyncStatus = old.kitSyncStatus
               /\ new.kitSyncedAt = old.kitSyncedAt

\* C30: round trip of the question endpoints: after a successful POST
\* question/update for question n (n in 1..6) with answer a for an existing
\* subscriber, getQuestionAnswers for that e-mail returns a under Qn and
\* getSurveyProgress lists n among the completed questions.
C30_QuestionRoundTrip ==
    (/\ calls # <<>>
     /\ calls[Len(calls)].op = "handleQuestionUpdate"
     /\ calls[Len(calls)].status = 200) =>
        LET call == calls[Len(calls)]
            Qn == <<"Q", call.questionNumber.n, "">>
        IN /\ Qn \in DOMAIN getQuestionAnswers(call.email)
           /\ getQuestionAnswers(call.email)[Qn] = call.answer
           /\ call.questionNumber.n \in getSurveyProgress(call.email)

\* C31: the record key (partition key, row key) the surveySubmission handler
\* hands to the sync-status patch is the key of the entity that
\* saveSurveyResponse created for the same submission.
C31_PatchTargetsOwnRecord ==
    \A i \in Requests :
        req[i].patch # NoEntity =>
            /\ req[i].appended
            /\ <<req[i].patch.partitionKey, req[i].patch.rowKey>> = RecordKey(i)

\* C32: the completion flag stored with a survey response equals the completed
\* value supplied with the submission (true or false), and is true only by
\* default, when the submission omits it.
C32_CompletedAsSupplied ==
    \A n \in DOMAIN calls :
        (calls[n].op \in {"saveSurveyResponse", "insertSurveyResponse"}
            /\ calls[n].threw = "") =>
            LET after == IF n < Len(calls) THEN calls[n + 1].responses
                         ELSE surveyResponses
            IN \A k \in DOMAIN after \ DOMAIN calls[n].responses :
                   after[k].completed =
                       (IF calls[n].completed = "" THEN TRUE
                        ELSE calls[n].completed = "true")

\* C33: table initialization is retried until it succeeds: after
\* ensureTablesExist has faulted on one request (answered 500), no request
\* hands a record to the store unless a request has since run
\* ensureTablesExist to its end without a fault.
C33_NoWriteBeforeTablesExist ==
    impl = "A" =>
        LET \* request j passed validation, so it looked at the table clients
            Validated(j) ==
                req[j].pc # "idle" /\ surveySubmissionSchema(req[j].payload) = {}
            \* request j found the clients unset and awaited ensureTablesExist:
            \* requests arrive in order and the clients, once set, stay set
            RanEnsure(j) ==
                Validated(j) /\ \A k \in Requests : k < j => ~Validated(k)
            EnsureFaulted(j) ==
                /\ RanEnsure(j) /\ req[j].pc = "done"
                /\ req[j].resp.status = 500 /\ req[j].entity = NoEntity
            TablesConfirmed ==
                \E j \in Requests :
                    RanEnsure(j) /\ req[j].pc # "ensureTables" /\ ~EnsureFaulted(j)
        IN (\E j \in Requests : EnsureFaulted(j)) =>
               \A i \in Requests : req[i].entity # NoEntity => TablesConfirmed

\* C34: the health endpoint reports a storage failure with priority: whenever
\* the storage connection test fails the response is 'unhealthy' with HTTP 503,
\* whatever the Kit API test gave; 'degraded' with 206 only when storage is
\* connected and the Kit API test fails; 'healthy' with 200 only when both pass.
C34_StorageFailureFirst ==
    \A n \in DOMAIN healthChecks :
        LET h == healthChecks[n]
        IN h.method = "GET" =>
              /\ ~h.storageConnected => (h.status = "unhealthy" /\ h.statusCode = 503)
              /\ (h.status = "degraded" \/ h.statusCode = 206) <=>
                     (h.storageConnected /\ ~h.kitSuccess)
              /\ (h.status = "healthy" \/ h.statusCode = 200) <=>
                     (h.storageConnected /\ h.kitSuccess)

\* C35: for every set of questions a subscriber has answered,
\* getSurveyProgress returns as nextQuestion the lowest-numbered question not
\* yet answered, null (0) exactly when all six are answered, and as progress
\* the rounded percentage of answered questions out of six.
C35_NextIsLowestUnanswered ==
    \A n \in DOMAIN calls :
        (calls[n].op = "getSurveyProgress" /\ calls[n].exists) =>
            LET stored == getSubscriberByEmail(calls[n].email).answers
                answered == {q \in 1..6 : /\ <<"Q", q, "">> \in DOMAIN stored
                                          /\ stored[<<"Q", q, "">>] # PlainString("")}
                unanswered == (1..6) \ answered
            IN /\ calls[n].nextQuestion =
                      (IF unanswered = {} THEN 0
                       ELSE CHOOSE q \in unanswered : \A r \in unanswered : q <= r)
               /\ calls[n].nextQuestion = 0 <=> unanswered = {}
               \* progress is the integer nearest to 100 * |answered| / 6
               /\ 6 * calls[n].progress - 3 <= 100 * Cardinality(answered)
               /\ 100 * Cardinality(answered) < 6 * calls[n].progress + 3

\* C36: isAllowed(id) returns true exactly when getRemainingRequests(id),
\* evaluated at the same instant just before the call, is greater than zero;
\* getRemainingRequests never changes the limiter state; a rejected call is not
\* recorded, so a rejected identifier is allowed again as soon as fewer than 5
\* of its allowed requests lie within the last 60 seconds.
C36_AllowedIffRemaining ==
    [][/\ limiterQueries' # limiterQueries =>
            (limiterRequests' = limiterRequests /\ limiterCalls' = limiterCalls)
       /\ limiterCalls' # limiterCalls =>
            LET n == Len(limiterCalls')
                c == limiterCalls'[n]
                before == IF c.identifier \in DOMAIN limiterRequests
                          THEN limiterRequests[c.identifier] ELSE <<>>
                \* the earlier allowed calls of the identifier in the last minute
                allowedBefore ==
                    {m \in 1..(n - 1) :
                        /\ limiterCalls[m].identifier = c.identifier
                        /\ limiterCalls[m].allowed
                        /\ limiterCalls[m].at > c.at - windowMs}
            IN /\ c.allowed <=> getRemainingRequests(c.identifier) > 0
               /\ ~c.allowed =>
                     RecentRequests(limiterRequests'[c.identifier], c.at - windowMs)
                         = RecentRequests(before, c.at - windowMs)
               /\ c.allowed <=> Cardinality(allowedBefore) < maxRequests
               /\ getRemainingRequests(c.identifier)
                     = maxRequests - Cardinality(allowedBefore)]_vars

\* an identifier was rejected and, the window having passed, allowed again,
\* and getRemainingRequests was called along the way
C36_Witness ==
    /\ limiterQueries > 0
    /\ \E n, m \in DOMAIN limiterCalls :
          /\ n < m
          /\ limiterCalls[n].identifier = limiterCalls[m].identifier
          /\ ~limiterCalls[n].allowed
          /\ limiterCalls[m].allowed

\* C37: sanitizeInput is idempotent on strings and its output is clean: the
\* output holds none of the characters < > ' ", has at most 1000 characters and
\* no leading or trailing whitespace, and sanitizing it again gives the same
\* string; a value that is not a string is returned unchanged.
C37_SanitizeIdempotentClean ==
    \A n \in DOMAIN calls :
        calls[n].op = "sanitizeInput" =>
            LET out == calls[n].output
            IN IF calls[n].input.isString
               THEN /\ out.isString
                    /\ \A c \in Range(out.chars) : c \notin {"<", ">", "'", "\""}
                    /\ Len(out.chars) <= SanitizeMaxLength
                    /\ out.chars # <<>> =>
                          (Head(out.chars) # " " /\ out.chars[Len(out.chars)] # " ")
                    /\ sanitizeValue(out) = out
               ELSE out = calls[n].input

====
